---- MODULE Spec2Model ----
(***************************************************************************)
(* Model of the scene visualizer pipeline (scene_visualizer_runner.py):    *)
(* the transcript directory, the tracking file, the scene directory, the   *)
(* reconciliation pass, the watchdog handler, the startup bootstrap and    *)
(* the Scene Processor runs (process_new_transcript); of the interval      *)
(* runner (dnd_visualizer_runner.py): lock file, Ollama start and health   *)
(* check, clean-up, image service health check; of the transcript parser   *)
(* (parse_scene_transkript.py); and of the handling of the LLM response    *)
(* (parse_llm_response in dnd_image_generator.py, _generate_scene_prompt). *)
(***************************************************************************)
EXTENDS Integers, Naturals, Sequences, FiniteSets, Bags, TLC

\* The transcript files of the watched directory (<scene>_transkript.txt).
Files == {"sz001", "sz002"}

\* Distinct file contents; 0 stands for "no such file".
MaxContent == 2
Contents == 1..MaxContent

\* Number of steps the external writer takes in one behaviour.
MaxEnvOps == 2

\* Scene Processor runs alive at the same time.
MaxRuns == 2

\* Created-events waiting in the observer's queue.
MaxEvents == 2

\* process_new_transcript: max_retries = 3
max_retries == 3

\* Nested _repair_tracking calls the interpreter's stack has room for
MaxRecursion == 2

VARIABLES
    transcripts,   \* watched directory: file -> content (0 = absent)
    mtimeOrder,    \* present files, oldest modification first
    scene,         \* scene directory: file -> [metadata, image, error]
    trackingFile,  \* transkript_tracking.json on disk
    pending,       \* tracking_data being written by json.dump
    syncPc,        \* position of the thread inside _initialize_tracking/_sync
    current_files, \* the directory scan of the latest pass: file -> hash
    lastSync,      \* how the latest pass ended (its log line)
    pc,            \* position of run() on the main thread
    running,       \* self.running
    observer,      \* the watchdog observer is started
    events,        \* created-events queued for TranscriptEventHandler
    runs,          \* bag of active process_new_transcript calls
    lastRun,       \* file -> how its latest finished run ended (its log line)
    redrop,        \* file -> an identical file reappeared after completion
    envOps,        \* steps taken by the external writer
    lastError,     \* file -> the exception that ended its latest failed run
    backup,        \* transkript_tracking.json.error_backup exists
    repair_depth,  \* nested calls of _repair_tracking on the thread's stack
    lock_file,     \* dnd_runner.lock: "absent", or what it holds
    dnd_pc,        \* instance -> position of DnDVisualizerRunner.run()
    dnd_running,   \* instance -> self.running of DnDVisualizerRunner
    signalled,     \* instance -> a SIGINT/SIGTERM was delivered to it
    processes,     \* instance -> state of the process in self.processes
    sent,          \* instance -> signals _cleanup_processes sent to the group
    probe,         \* instance -> what the LLM host answered to /api/tags
    returned,      \* instance -> what run() returned
    hc,            \* a call of _health_check_image_service
    resp,          \* an LLM response and what is made of it
    rt,            \* a transcript, its segments and their re-parse
    health,        \* what the latest pass of _healthcheck_loop found
    watch,         \* the observer thread inside TranscriptEventHandler
    loop,          \* the threads of _tracking_loop and _healthcheck_loop
    cycle,         \* the generation cycle of the interval runner
    ids            \* a transcript file name and the scene ids derived from it

\* The state of the tracking repair
repairVars == <<backup, repair_depth>>

\* The state of the interval runner (dnd_visualizer_runner.py)
dndVars ==
    <<lock_file, dnd_pc, dnd_running, signalled, processes, sent, probe,
      returned>>

\* The calls that are modelled on their own, and the healthcheck thread
\* The state of the components that are modelled on their own
moreVars == <<watch, loop, cycle, ids>>

fnVars == <<hc, resp, rt, health, moreVars>>

vars == <<transcripts, mtimeOrder, scene, trackingFile, pending, syncPc,
          current_files, lastSync, pc, running, observer, events, runs,
          lastRun, redrop, envOps, lastError, repairVars, dndVars, fnVars>>

----------------------------------------------------------------------------
\* Data

NoRec == [status |-> "none", hash |-> 0, previous_status |-> "none"]

NoTranscripts == [f \in Files |-> NoRec]

\* _initialize_tracking: the tracking_data of a fresh tracking file
InitialTracking ==
    [state |-> "valid", transcripts |-> NoTranscripts,
     status |-> "initialized", sync_count |-> 0]

MissingFile == [InitialTracking EXCEPT !.state = "missing"]

\* open(tracking_file, 'w') has truncated the file, json.dump has not finished
PartialFile == [InitialTracking EXCEPT !.state = "partial"]

\* A tracking file json.load cannot parse, or one without the "transcripts" map
CorruptFile == [InitialTracking EXCEPT !.state = "corrupt"]

\* The files of one scene: <scene>_metadata.json (the content it was made
\* from), <scene>_image.png, <scene>_error.json and, of the error file, its
\* keys "error" and "failed_attempts"
NoOutput ==
    [metadata |-> 0, image |-> FALSE, error |-> FALSE,
     error_text |-> "", failed_attempts |-> 0]

\* The complete pair an earlier execution of the runner has left
EarlierOutput == [NoOutput EXCEPT !.metadata = 1, !.image = TRUE]

\* _get_file_hash: the digest of the file's bytes
get_file_hash(content) == content

\* _check_for_existing_output
check_for_existing_output(f) == scene[f].image /\ scene[f].metadata # 0

\* The locals of one call of process_new_transcript: the transcript and its
\* content as parsed (c), the loop variable attempt (n), the caller (src),
\* the prompt it holds (none yet, the LLM's, or the fallback) and the
\* exception of its latest image-client call (e)
Run(f, c, n, src) ==
    [f |-> f, c |-> c, n |-> n, src |-> src, prompt |-> "none", e |-> "none"]

AddRuns(b, S) == b (+) SetToBag(S)

RemoveRun(b, r) == b (-) SetToBag({r})

RunsOf(f) ==
    BagCardinality([r \in {x \in BagToSet(runs) : x.f = f} |-> runs[r]])

RunsFrom(src) ==
    BagCardinality([r \in {x \in BagToSet(runs) : x.src = src} |-> runs[r]])

Remove(seq, f) == SelectSeq(seq, LAMBDA x : x # f)

Orders(S) ==
    {s \in UNION {[1..n -> S] : n \in 0..Cardinality(S)} :
        /\ Len(s) = Cardinality(S)
        /\ \A i, j \in 1..Len(s) : i # j => s[i] # s[j]}

\* The processes that run dnd_visualizer_runner.py, named by their pid
Instances == {"p1", "p2"}

\* No health check of the LLM host was made yet
NoProbe == [status |-> -1, models |-> {}]

\* No interval runner is started
DndOff ==
    /\ lock_file = "absent"
    /\ dnd_pc = [i \in Instances |-> "new"]
    /\ dnd_running = [i \in Instances |-> FALSE]
    /\ signalled = [i \in Instances |-> FALSE]
    /\ processes = [i \in Instances |-> "none"]
    /\ sent = [i \in Instances |-> <<>>]
    /\ probe = [i \in Instances |-> NoProbe]
    /\ returned = [i \in Instances |-> "none"]

\* _health_check_image_service is not being called
NoCheck ==
    [config |-> TRUE, max_retries |-> 0, attempt |-> 0, trace |-> <<>>,
     result |-> "idle"]

\* No LLM response is being handled
NoResponse ==
    [pc |-> "idle", candidate |-> <<>>, name |-> <<>>, text |-> <<>>,
     from |-> "none", json |-> "none", prompt |-> <<>>, record |-> "none",
     clock |-> <<0, 0>>]

\* No transcript is being parsed
NoRoundTrip ==
    [pc |-> "idle", datei |-> <<>>, segmente |-> <<>>, text |-> <<>>,
     wieder |-> <<>>, raised |-> "none", metadata |-> <<>>]

\* No call of the functions modelled on their own is under way
\* No event was delivered to the handler
NoEvents ==
    [pc |-> "idle", now |-> 0, queue |-> <<>>, log |-> <<>>, taken |-> 0,
     seen |-> 0, triggers |-> <<>>]

\* The tracking thread and the healthcheck thread are not started
NoLoops ==
    [running |-> FALSE, t_pc |-> "off", h_pc |-> "off",
     consecutive_errors |-> 0, pause |-> 0, dumps |-> 0, failed |-> 0,
     passes |-> 0, todo |-> 0, seen_stop |-> {}, late |-> {}]

\* The interval runner has made no generation cycle
NoCycle ==
    [pc |-> "off", now |-> 0, mtime |-> 0, version |-> 0,
     last_generation_time |-> -1, read |-> 0, processed |-> 0,
     llm |-> "none", result |-> "none"]

\* No file name was looked at
NoIds == [pc |-> "idle", name |-> <<>>, parser |-> <<>>, reconciler |-> <<>>,
          bootstrap |-> <<>>]

FnOff ==
    /\ hc = NoCheck
    /\ resp = NoResponse
    /\ rt = NoRoundTrip
    /\ health = "none"
    /\ watch = NoEvents
    /\ loop = NoLoops
    /\ cycle = NoCycle
    /\ ids = NoIds

----------------------------------------------------------------------------
\* Init: the runner object has been constructed, run() has not started.

\* The state before run(), with tf as the tracking file an earlier execution
\* has left
SceneInit(tf) ==
    /\ transcripts \in [Files -> 0..MaxContent]
    /\ mtimeOrder \in Orders({f \in Files : transcripts[f] # 0})
    /\ scene \in [Files -> {NoOutput, EarlierOutput}]
    /\ trackingFile = tf
    /\ pending = InitialTracking
    /\ syncPc = "idle"
    /\ current_files = [f \in Files |-> 0]
    /\ lastSync = "none"
    /\ pc = "start"
    /\ running = FALSE
    /\ observer = FALSE
    /\ events = << >>
    /\ runs = EmptyBag
    /\ lastRun = [f \in Files |-> "none"]
    /\ redrop = [f \in Files |-> FALSE]
    /\ envOps = 0
    /\ lastError = [f \in Files |-> "none"]
    /\ backup = FALSE
    /\ repair_depth = 0

Init == SceneInit(MissingFile) /\ DndOff /\ FnOff

----------------------------------------------------------------------------
\* The external writer of the watched directory (the transcription service).

Touch(f) == Append(Remove(mtimeOrder, f), f)

\* A file is written: created, or overwritten in place.  The observer
\* reports only a creation to on_created.
EnvWrite(f, c) ==
    /\ envOps < MaxEnvOps
    /\ pc \notin {"stopped", "crashed"}
    /\ (observer /\ transcripts[f] = 0) => Len(events) < MaxEvents
    /\ transcripts' = [transcripts EXCEPT ![f] = c]
    /\ mtimeOrder' = Touch(f)
    /\ events' = IF observer /\ transcripts[f] = 0
                 THEN Append(events, f) ELSE events
    /\ redrop' = [redrop EXCEPT ![f] =
                    IF c # scene[f].metadata THEN FALSE
                    ELSE \/ redrop[f]
                         \/ /\ lastRun[f] = "ok"
                            /\ scene[f].image
                            /\ RunsOf(f) = 0
                            /\ \A i \in 1..Len(events) : events[i] # f
                            /\ syncPc = "idle"
                            /\ trackingFile.state = "valid"
                            /\ trackingFile.transcripts[f].hash
                                 \in {0, get_file_hash(c)}]
    /\ envOps' = envOps + 1
    /\ UNCHANGED <<lastError, repairVars, dndVars, fnVars>>
    /\ UNCHANGED <<scene, trackingFile, pending, syncPc, current_files,
                   lastSync, pc, running, observer, runs, lastRun>>

EnvDelete(f) ==
    /\ envOps < MaxEnvOps
    /\ pc \notin {"stopped", "crashed"}
    /\ transcripts[f] # 0
    /\ transcripts' = [transcripts EXCEPT ![f] = 0]
    /\ mtimeOrder' = Remove(mtimeOrder, f)
    /\ envOps' = envOps + 1
    /\ UNCHANGED <<lastError, repairVars, dndVars, fnVars>>
    /\ UNCHANGED <<scene, trackingFile, pending, syncPc, current_files,
                   lastSync, pc, running, observer, events, runs, lastRun,
                   redrop>>

----------------------------------------------------------------------------
\* _initialize_tracking and _sync_tracking_with_filesystem

\* The thread that may start a pass: run() at startup (through
\* _ensure_directories), or _tracking_loop while self.running.
MaySync == pc = "start" \/ (pc = "running" /\ running)

\* _initialize_tracking returns to run(): next is _check_initial_transcripts
AfterSync == IF pc = "start" THEN "bootstrap" ELSE pc

\* The scan: file name -> hash of the file (0: the glob did not return it)
Scan == [f \in Files |-> get_file_hash(transcripts[f])]

IsNewFile(td, f) == Scan[f] # 0 /\ td[f].status = "none"

IsChangedFile(td, f) ==
    Scan[f] # 0 /\ td[f].status # "none" /\ td[f].hash # Scan[f]

\* "if self.running and old_status != 'completed'"
ProcessModified(old_status) == running /\ old_status # "completed"

\* "if self.running" in the branch of a new file without output
ProcessNew(f) == running /\ ~check_for_existing_output(f)

\* A comparison that keeps the previous_status a changed record already had
SyncRecord_KeepsFirstPrevious(td, f) ==
    IF Scan[f] = 0 THEN NoRec
    ELSE IF IsNewFile(td, f) THEN
        [status |-> IF check_for_existing_output(f) THEN "completed" ELSE "new",
         hash |-> Scan[f], previous_status |-> "none"]
    ELSE IF IsChangedFile(td, f) THEN
        [status |-> "modified", hash |-> Scan[f],
         previous_status |-> IF td[f].previous_status = "none"
                             THEN td[f].status
                             ELSE td[f].previous_status]
    ELSE td[f]

\* Mutant of SyncRecord: the stale entries are not removed
SyncRecord_KeepsStale(td, f) ==
    IF Scan[f] = 0 THEN td[f]
    ELSE IF IsNewFile(td, f) THEN
        [status |-> IF check_for_existing_output(f) THEN "completed" ELSE "new",
         hash |-> Scan[f], previous_status |-> "none"]
    ELSE IF IsChangedFile(td, f) THEN
        [status |-> "modified", hash |-> Scan[f],
         previous_status |-> td[f].status]
    ELSE td[f]

\* The record of f after the comparison and the removal of stale entries
SyncRecord(td, f) ==
    IF Scan[f] = 0 THEN NoRec
    ELSE IF IsNewFile(td, f) THEN
        [status |-> IF check_for_existing_output(f) THEN "completed" ELSE "new",
         hash |-> Scan[f], previous_status |-> "none"]
    ELSE IF IsChangedFile(td, f) THEN
        [status |-> "modified", hash |-> Scan[f],
         previous_status |-> td[f].status]
    ELSE td[f]

\* The files for which the pass starts a _process_file_safely thread
SyncDispatch(td) ==
    {f \in Files : \/ IsNewFile(td, f) /\ ProcessNew(f)
                   \/ IsChangedFile(td, f) /\ ProcessModified(td[f].status)}

\* _initialize_tracking, tracking file absent: open(..., 'w')
BeginInitialize ==
    /\ syncPc = "idle"
    /\ MaySync
    /\ trackingFile.state = "missing"
    /\ trackingFile' = PartialFile
    /\ pending' = InitialTracking
    /\ syncPc' = "write_init"
    /\ UNCHANGED <<lastError, repairVars, dndVars, fnVars>>
    /\ UNCHANGED <<transcripts, mtimeOrder, scene, current_files, lastSync,
                   pc, running, observer, events, runs, lastRun, redrop,
                   envOps>>

\* _initialize_tracking: json.dump is through; the sync follows
FinishInitialize ==
    /\ syncPc = "write_init"
    /\ trackingFile' = pending
    /\ syncPc' = "init_sync"
    /\ UNCHANGED <<lastError, repairVars, dndVars, fnVars>>
    /\ UNCHANGED <<transcripts, mtimeOrder, scene, pending, current_files,
                   lastSync, pc, running, observer, events, runs, lastRun,
                   redrop, envOps>>

\* _sync_tracking_with_filesystem up to open(tracking_file, 'w')
SyncPass ==
    /\ syncPc = "init_sync" \/ (syncPc = "idle" /\ MaySync)
    /\ trackingFile.state = "valid"
    /\ LET td == trackingFile.transcripts
           new == [f \in Files |-> SyncRecord(td, f)]
           started == SyncDispatch(td)
       IN  /\ BagCardinality(runs) + Cardinality(started) <= MaxRuns
           /\ runs' = AddRuns(runs, {Run(f, 0, 0, "reconciler") : f \in started})
           /\ current_files' = Scan
           /\ IF new # td
              THEN /\ trackingFile' = PartialFile
                   /\ pending' = [state |-> "valid", transcripts |-> new,
                                  status |-> "active",
                                  sync_count |-> trackingFile.sync_count + 1]
                   /\ syncPc' = "write_sync"
                   /\ UNCHANGED <<lastSync, pc>>
              ELSE /\ syncPc' = "idle"
                   /\ lastSync' = "unchanged"
                   /\ pc' = AfterSync
                   /\ UNCHANGED <<trackingFile, pending>>
    /\ UNCHANGED <<lastError, repairVars, dndVars, fnVars>>
    /\ UNCHANGED <<transcripts, mtimeOrder, scene, running, observer, events,
                   lastRun, redrop, envOps>>

\* _sync_tracking_with_filesystem: json.dump is through
FinishPersist ==
    /\ syncPc = "write_sync"
    /\ trackingFile' = pending
    /\ pending' = InitialTracking
    /\ syncPc' = "idle"
    /\ lastSync' = "updated"
    /\ pc' = AfterSync
    /\ UNCHANGED <<lastError, repairVars, dndVars, fnVars>>
    /\ UNCHANGED <<transcripts, mtimeOrder, scene, current_files, running,
                   observer, events, runs, lastRun, redrop, envOps>>

----------------------------------------------------------------------------
\* The tracking file cannot be used: json.load raises, or the "transcripts"
\* key is missing (KeyError).  The except clause of
\* _sync_tracking_with_filesystem calls _repair_tracking.

\* The thread is about to load the tracking file in a pass
AtLoad == syncPc = "init_sync" \/ (syncPc = "idle" /\ MaySync)

\* _repair_tracking: the file is copied to the .error_backup file, then
\* _initialize_tracking finds that the file exists, creates nothing and
\* calls _sync_tracking_with_filesystem again.
repair_tracking ==
    /\ AtLoad
    /\ trackingFile.state = "corrupt"
    /\ repair_depth < MaxRecursion
    /\ backup' = TRUE
    /\ repair_depth' = repair_depth + 1
    /\ syncPc' = "init_sync"
    /\ UNCHANGED <<lastError, dndVars, fnVars>>
    /\ UNCHANGED <<transcripts, mtimeOrder, scene, trackingFile, pending,
                   current_files, lastSync, pc, running, observer, events,
                   runs, lastRun, redrop, envOps>>

\* The stack is full: RecursionError is raised in the innermost call and is
\* caught by the "except Exception" clauses on the way out (lines 215, 360,
\* 369); every _initialize_tracking on the stack fails to load the file
\* again (line 204) and logs it.  The first call returns.
RecursionError ==
    /\ AtLoad
    /\ trackingFile.state = "corrupt"
    /\ repair_depth = MaxRecursion
    /\ repair_depth' = 0
    /\ syncPc' = "idle"
    /\ lastSync' = "error"
    /\ pc' = AfterSync
    /\ UNCHANGED <<lastError, backup, dndVars, fnVars>>
    /\ UNCHANGED <<transcripts, mtimeOrder, scene, trackingFile, pending,
                   current_files, running, observer, events, runs, lastRun,
                   redrop, envOps>>

----------------------------------------------------------------------------
\* run(): startup, bootstrap, launch, shutdown

\* get_latest_transkript: the file with the greatest modification time
get_latest_transkript ==
    IF mtimeOrder = << >> THEN "none" ELSE mtimeOrder[Len(mtimeOrder)]

\* _check_initial_transcripts: the branch taken for the latest transcript.
\* process_new_transcript is called unless the image exists.
BootstrapProcesses(latest) == latest # "none" /\ ~scene[latest].image

\* _check_initial_transcripts up to its call of process_new_transcript, which
\* runs on the main thread: run() goes on when that run has ended (Launch).
Bootstrap ==
    /\ pc = "bootstrap"
    /\ LET latest == get_latest_transkript
       IN  runs' = IF BootstrapProcesses(latest)
                   THEN AddRuns(runs, {Run(latest, 0, 0, "bootstrap")})
                   ELSE runs
    /\ pc' = "launch"
    /\ UNCHANGED <<lastError, repairVars, dndVars, fnVars>>
    /\ UNCHANGED <<transcripts, mtimeOrder, scene, trackingFile, pending,
                   syncPc, current_files, lastSync, running, observer, events,
                   lastRun, redrop, envOps>>

\* run(): self.running = True, the tracking thread and the observer start
Launch ==
    /\ pc = "launch"
    /\ RunsFrom("bootstrap") = 0
    /\ pc' = "running"
    /\ running' = TRUE
    /\ observer' = TRUE
    /\ UNCHANGED <<lastError, repairVars, dndVars, fnVars>>
    /\ UNCHANGED <<transcripts, mtimeOrder, scene, trackingFile, pending,
                   syncPc, current_files, lastSync, events, runs, lastRun,
                   redrop, envOps>>

\* _signal_handler: SIGINT or SIGTERM
Signal ==
    /\ pc \in {"start", "bootstrap", "launch", "running"}
    /\ running' = FALSE
    /\ observer' = FALSE
    /\ events' = IF observer THEN << >> ELSE events
    /\ UNCHANGED <<lastError, repairVars, dndVars, fnVars>>
    /\ UNCHANGED <<transcripts, mtimeOrder, scene, trackingFile, pending,
                   syncPc, current_files, lastSync, pc, runs, lastRun, redrop,
                   envOps>>

\* run(): the main loop sees running = False, _shutdown_gracefully joins the
\* tracking thread, run() returns and the daemon threads end with the process.
Shutdown ==
    /\ pc = "running"
    /\ ~running
    /\ syncPc = "idle"
    /\ pc' = "stopped"
    /\ runs' = EmptyBag
    /\ UNCHANGED <<lastError, repairVars, dndVars, fnVars>>
    /\ UNCHANGED <<transcripts, mtimeOrder, scene, trackingFile, pending,
                   syncPc, current_files, lastSync, running, observer, events,
                   lastRun, redrop, envOps>>

----------------------------------------------------------------------------
\* TranscriptEventHandler.on_created: the observer's thread takes the next
\* event and calls process_new_transcript; the next event waits for its return.
on_created ==
    /\ observer
    /\ events # << >>
    /\ RunsFrom("watcher") = 0
    /\ BagCardinality(runs) < MaxRuns
    /\ runs' = AddRuns(runs, {Run(Head(events), 0, 0, "watcher")})
    /\ events' = Tail(events)
    /\ UNCHANGED <<lastError, repairVars, dndVars, fnVars>>
    /\ UNCHANGED <<transcripts, mtimeOrder, scene, trackingFile, pending,
                   syncPc, current_files, lastSync, pc, running, observer,
                   lastRun, redrop, envOps>>

----------------------------------------------------------------------------
\* process_new_transcript

\* What one call of img_gen.generate_img can end in
Outcomes == {"ok", "server_error", "refused", "timeout", "protocol_error"}

\* generate_img returned a response: the success branch is taken
Returned(outcome) == outcome \in {"ok", "server_error"}

\* Mutant of Retried: the last retry is not made
Retried_OneLess(outcome, n) == outcome = "refused" /\ n < max_retries - 2

\* Mutant of Retried: a ProtocolError is retried like a refused connection
Retried_AlsoProtocol(outcome, n) ==
    outcome \in {"refused", "protocol_error"} /\ n < max_retries - 1

\* except ConnectionError with "Connection refused", attempt < max_retries - 1
Retried(outcome, n) == outcome = "refused" /\ n < max_retries - 1

\* The scene directory after the success branch: the image server has saved
\* the image (outcome ok), the metadata is written, the error file unlinked.
SceneAfterSuccess(out, c, outcome) ==
    [metadata |-> c,
     image |-> IF outcome = "ok" THEN TRUE ELSE out.image,
     error |-> FALSE, error_text |-> "", failed_attempts |-> 0]

\* str(e) of the exception generate_img raises for an outcome
ExceptionMessage(outcome) ==
    CASE outcome = "refused" ->
           "Verbindung zum Service fehlgeschlagen: [Errno 111] Connection refused"
      [] outcome = "timeout" -> "Socket timeout beim Service"
      [] outcome = "protocol_error" -> "Ungültige Antwort vom Service erhalten."
      [] OTHER -> ""

\* 'e' in locals() after the for loop: an "except ... as e" clause unbinds e
\* when it is left, by break and by falling through alike
e_in_locals == FALSE

\* "error": str(e) if 'e' in locals() else "Unbekannter Fehler"
ErrorText(outcome) ==
    IF e_in_locals THEN ExceptionMessage(outcome) ELSE "Unbekannter Fehler"

\* The scene directory after the failure branch: the error file is written.
SceneAfterFailure(out, outcome) ==
    [out EXCEPT !.error = TRUE,
                !.error_text = ErrorText(outcome),
                !.failed_attempts = max_retries]

\* What ollama.generate can end in, as _generate_scene_prompt sees it
LLMOutcomes == {"answer", "invalid_json", "exception"}

\* _generate_scene_prompt: the LLM's prompt, or a fallback prompt when the
\* call raised or the answer was no JSON; it never raises
generate_scene_prompt(llm) == IF llm = "answer" THEN "llm" ELSE "fallback"

\* SceneTranskriptParser(transcript_path): the file is read; a missing file
\* raises FileNotFoundError, which process_new_transcript only logs.  Then
\* _generate_scene_prompt is called.
RunParse(r, llm) ==
    /\ BagIn(r, runs)
    /\ r.c = 0
    /\ IF transcripts[r.f] = 0
       THEN /\ runs' = RemoveRun(runs, r)
            /\ lastRun' = [lastRun EXCEPT ![r.f] = "aborted"]
       ELSE /\ runs' = AddRuns(RemoveRun(runs, r),
                               {[r EXCEPT !.c = transcripts[r.f],
                                          !.prompt = generate_scene_prompt(llm)]})
            /\ UNCHANGED lastRun
    /\ UNCHANGED <<lastError, repairVars, dndVars, fnVars>>
    /\ UNCHANGED <<transcripts, mtimeOrder, scene, trackingFile, pending,
                   syncPc, current_files, lastSync, pc, running, observer,
                   events, redrop, envOps>>

\* One iteration of "for attempt in range(max_retries)" and what follows it.
RunAttempt(r, outcome) ==
    /\ BagIn(r, runs)
    /\ r.c # 0
    /\ IF Returned(outcome)
       THEN /\ scene' = [scene EXCEPT ![r.f] = SceneAfterSuccess(@, r.c, outcome)]
            /\ runs' = RemoveRun(runs, r)
            /\ lastRun' = [lastRun EXCEPT ![r.f] = outcome]
       ELSE IF Retried(outcome, r.n)
       THEN /\ runs' = AddRuns(RemoveRun(runs, r),
                               {[r EXCEPT !.n = r.n + 1, !.e = outcome]})
            /\ UNCHANGED <<scene, lastRun>>
       ELSE /\ scene' = [scene EXCEPT ![r.f] = SceneAfterFailure(@, outcome)]
            /\ runs' = RemoveRun(runs, r)
            /\ lastRun' = [lastRun EXCEPT ![r.f] = "failed"]
    /\ UNCHANGED <<repairVars, dndVars, fnVars>>
    /\ UNCHANGED <<transcripts, mtimeOrder, trackingFile, pending, syncPc,
                   current_files, lastSync, pc, running, observer, events,
                   redrop, envOps>>

\* logger.error of the exception that ended the for loop without a result
\* ("Verbindungsfehler: {e}", "Fehler bei Bildgenerierung: {e}", or the
\* third "Image Service noch nicht bereit")
LogFailure(r, outcome) ==
    lastError' = IF Returned(outcome) \/ Retried(outcome, r.n) THEN lastError
                 ELSE [lastError EXCEPT ![r.f] = outcome]

----------------------------------------------------------------------------
\* The process is killed (power loss, SIGKILL, out of memory).
Crash ==
    /\ pc \notin {"stopped", "crashed"}
    /\ pc' = "crashed"
    /\ running' = FALSE
    /\ observer' = FALSE
    /\ events' = << >>
    /\ runs' = EmptyBag
    /\ UNCHANGED <<lastError, repairVars, dndVars, fnVars>>
    /\ UNCHANGED <<transcripts, mtimeOrder, scene, trackingFile, pending,
                   syncPc, current_files, lastSync, lastRun, redrop, envOps>>

----------------------------------------------------------------------------
RunRecords ==
    [f : Files, c : 0..MaxContent, n : 0..(max_retries - 1),
     src : {"reconciler", "watcher", "bootstrap"},
     prompt : {"none", "llm", "fallback"}, e : {"none"} \cup Outcomes]

\* A step of one active call of process_new_transcript, the LLM answering
RunStep(r) ==
    \/ RunParse(r, "answer")
    \/ \E outcome \in Outcomes : RunAttempt(r, outcome) /\ UNCHANGED lastError

\* Some active call parses its transcript and asks the LLM, which answers
Parse == \E r \in BagToSet(runs) : RunParse(r, "answer")

\* Some active call makes an image-client call
Render ==
    \E r \in BagToSet(runs), outcome \in Outcomes :
        RunAttempt(r, outcome) /\ UNCHANGED lastError

Next ==
    \/ \E f \in Files, c \in Contents : EnvWrite(f, c)
    \/ \E f \in Files : EnvDelete(f)
    \/ BeginInitialize
    \/ FinishInitialize
    \/ SyncPass
    \/ FinishPersist
    \/ Bootstrap
    \/ Launch
    \/ Signal
    \/ Shutdown
    \/ on_created
    \/ Parse
    \/ Render

Spec == Init /\ [][Next]_vars

\* The pipeline started on the tracking file of an earlier execution that is
\* missing or unusable, and on an empty scene directory
RepairInit ==
    /\ \E tf \in {MissingFile, CorruptFile} : SceneInit(tf)
    /\ scene = [f \in Files |-> NoOutput]
    /\ DndOff
    /\ FnOff

RepairNext == Next \/ repair_tracking \/ RecursionError

RepairSpec == RepairInit /\ [][RepairNext]_vars

\* The pipeline with one scene, an LLM that can fail, and the log of the
\* exception that ended a run without an image
ProcParse ==
    \E r \in BagToSet(runs), llm \in LLMOutcomes : RunParse(r, llm)

ProcRender ==
    \E r \in BagToSet(runs), outcome \in Outcomes :
        RunAttempt(r, outcome) /\ LogFailure(r, outcome)

ProcInit ==
    /\ Init
    /\ transcripts["sz002"] = 0
    /\ scene["sz002"] = NoOutput

ProcNext ==
    \/ \E c \in Contents : EnvWrite("sz001", c)
    \/ EnvDelete("sz001")
    \/ BeginInitialize
    \/ FinishInitialize
    \/ SyncPass
    \/ FinishPersist
    \/ Bootstrap
    \/ Launch
    \/ Signal
    \/ Shutdown
    \/ on_created
    \/ ProcParse
    \/ ProcRender

ProcSpec == ProcInit /\ [][ProcNext]_vars

\* The pipeline with crashes of the process
CrashNext == Next \/ Crash

CrashSpec == Init /\ [][CrashNext]_vars

\* The pipeline of a runner that keeps running (no signal), every thread
\* scheduled fairly: the main thread, the tracking thread, the observer's
\* thread and each worker take their next step when they can.
FairNext ==
    \/ \E f \in Files, c \in Contents : EnvWrite(f, c)
    \/ \E f \in Files : EnvDelete(f)
    \/ BeginInitialize
    \/ FinishInitialize
    \/ SyncPass
    \/ FinishPersist
    \/ Bootstrap
    \/ Launch
    \/ on_created
    \/ Parse
    \/ Render

FairInit == Init /\ scene = [f \in Files |-> NoOutput]

FairSpec ==
    /\ FairInit
    /\ [][FairNext]_vars
    /\ WF_vars(BeginInitialize)
    /\ WF_vars(FinishInitialize)
    /\ WF_vars(SyncPass)
    /\ WF_vars(FinishPersist)
    /\ WF_vars(Bootstrap)
    /\ WF_vars(Launch)
    /\ WF_vars(on_created)
    /\ \A f \in Files : WF_vars(\E r \in BagToSet(runs) : r.f = f /\ RunStep(r))

----------------------------------------------------------------------------
\* Properties

\* The record of f in the tracking data (while json.dump is writing: in the
\* data being written)
RecordOf(f) ==
    IF trackingFile.state = "partial" THEN pending.transcripts[f]
    ELSE trackingFile.transcripts[f]

Tracked(f) == RecordOf(f).status # "none"

CompletePair(f) == scene[f].metadata # 0 /\ scene[f].image

\* C1: in every reachable state and for every scene, the error file does not
\* exist together with both the metadata file and the image.
C1_ErrorExcludesPair ==
    \A f \in Files : ~(scene[f].error /\ CompletePair(f))

\* C2: for every scene at most one process_new_transcript call is active.
C2_OneRunPerScene ==
    \A f \in Files : RunsOf(f) <= 1

\* C3: every transcript present in the watched directory eventually has the
\* complete pair or the error file in the scene directory (or is removed
\* again), when the runner keeps running and every thread is scheduled fairly.
C3_EventuallyPairOrError ==
    \A f \in Files :
        [](transcripts[f] # 0 =>
              <>(CompletePair(f) \/ scene[f].error \/ transcripts[f] = 0))

\* C4: after a run for a tracked transcript has ended, the record reaches the
\* matching status: completed after an image was produced, failed after the
\* error file was written (unless the record is removed or a new run starts).
C4_TerminalStatus ==
    \A f \in Files :
        /\ [](lastRun[f] = "ok" /\ RunsOf(f) = 0 /\ Tracked(f) =>
                <>(RecordOf(f).status = "completed"
                   \/ ~Tracked(f) \/ RunsOf(f) > 0))
        /\ [](lastRun[f] = "failed" /\ RunsOf(f) = 0 /\ Tracked(f) =>
                <>(RecordOf(f).status = "failed"
                   \/ ~Tracked(f) \/ RunsOf(f) > 0))

\* C5: after a scene was processed to completion from content h, a file with
\* the same bytes reappearing under the same name starts no further run.
C5_NoRunAfterRedrop ==
    \A f \in Files : redrop[f] => RunsOf(f) = 0

\* A step of the tracking loop's pass that finds at least one difference
LoopPassUpdates ==
    /\ syncPc = "idle" /\ syncPc' = "write_sync"
    /\ pc = "running" /\ running

\* C6: a pass of the running pipeline that finds a tracked file with a changed
\* hash starts a run for it, whatever the status of its record was.
C6_ChangeEnqueued ==
    [][\A f \in Files :
         LoopPassUpdates /\ IsChangedFile(trackingFile.transcripts, f)
             => RunsOf(f)' = RunsOf(f) + 1]_vars

\* C7: after every pass that ended without error, the files that hold a
\* record are exactly the files the pass's scan returned.
C7_TrackedEqualsScan ==
    (syncPc = "idle" /\ lastSync \in {"updated", "unchanged"}) =>
        \A f \in Files :
            (trackingFile.transcripts[f].status # "none") <=> (current_files[f] # 0)

\* C7 witness: a pass has ended that removed the last record: the scan was
\* empty, and sync_count shows an earlier pass that had inserted a record
C7_Witness ==
    /\ syncPc = "idle" /\ lastSync = "updated"
    /\ trackingFile.sync_count >= 2
    /\ \A f \in Files :
          current_files[f] = 0 /\ trackingFile.transcripts[f].status = "none"

\* C8: when the process stops during a persist, the tracking file holds the
\* complete previous or the complete new content, never a partial file.
C8_AtomicPersist ==
    pc = "crashed" => trackingFile.state # "partial"

\* C9: a pass that follows a pass with no change of the directory in between
\* leaves the records alone, starts no run, and increments sync_count.
C9_SecondPassIncrements ==
    [][(/\ syncPc = "idle" /\ trackingFile.state = "valid"
        /\ lastSync = "updated" /\ current_files = Scan
        /\ lastSync' = "unchanged")
       => /\ trackingFile'.transcripts = trackingFile.transcripts
          /\ runs' = runs
          /\ trackingFile'.sync_count = trackingFile.sync_count + 1]_vars

\* Two active runs of one scene have read different contents of its transcript
OverlapOnChange(f) ==
    \E r1, r2 \in BagToSet(runs) :
        r1.f = f /\ r2.f = f /\ r1.c # 0 /\ r2.c # 0 /\ r1.c # r2.c

\* C10: when a transcript is overwritten with different content while its run
\* is rendering, the run for the new content does not overlap the first one.
C10_RaceSerialized ==
    \A f \in Files : ~OverlapOnChange(f)

\* C11: when a pass that found the tracking file unusable has ended, the
\* backup copy exists, the tracking file is a fresh valid one and every
\* transcript present in the scan has its record.
C11_CorruptionRepaired ==
    (syncPc = "idle" /\ lastSync = "error") =>
        /\ backup
        /\ trackingFile.state = "valid"
        /\ \A f \in Files : transcripts[f] # 0 => Tracked(f)

----------------------------------------------------------------------------
\* The interval runner, dnd_visualizer_runner.py: DnDVisualizerRunner.run()
\* in each of the processes started on one working directory.

\* The variables of the scene pipeline
sceneVars ==
    <<transcripts, mtimeOrder, scene, trackingFile, pending, syncPc,
      current_files, lastSync, pc, running, observer, events, runs, lastRun,
      redrop, envOps, lastError, repairVars>>

\* run() has returned in this process
Exited == {"refused", "exited"}

\* os.kill(pid, 0) succeeds: the lock file names a process that exists
Alive(content) == content \in Instances /\ dnd_pc[content] \notin Exited

\* ollama_config['required_model'] and another model the host may list
required_model == "required"
ModelNames == {required_model, "other"}

\* What requests.get(health_url) can bring back: an HTTP status with the
\* names under "models"; status 0 stands for a request that raised
Probes == [status : {0, 200, 500}, models : SUBSET ModelNames]

\* A health check that looks at the HTTP status alone
health_check_ollama_StatusOnly(p) == p.status = 200

\* _health_check_ollama
health_check_ollama(p) ==
    IF p.status = 0
    THEN FALSE
    ELSE IF p.status = 200
         THEN \E name \in p.models : name = required_model
         ELSE FALSE

\* A check that unlinks the lock file of a live process before it refuses
check_lock_file_Unlinks(i) ==
    /\ dnd_pc[i] = "new"
    /\ IF lock_file = "absent"
       THEN /\ dnd_pc' = [dnd_pc EXCEPT ![i] = "checked"]
            /\ UNCHANGED <<lock_file, returned>>
       ELSE IF Alive(lock_file)
       THEN /\ dnd_pc' = [dnd_pc EXCEPT ![i] = "refused"]
            /\ returned' = [returned EXCEPT ![i] = "False"]
            /\ lock_file' = "absent"
       ELSE /\ lock_file' = "absent"
            /\ dnd_pc' = [dnd_pc EXCEPT ![i] = "checked"]
            /\ UNCHANGED returned
    /\ UNCHANGED <<dnd_running, signalled, processes, sent, probe, sceneVars,
                   fnVars>>

\* _check_lock_file, and the return of run() when it answers False
check_lock_file(i) ==
    /\ dnd_pc[i] = "new"
    /\ IF lock_file = "absent"
       THEN /\ dnd_pc' = [dnd_pc EXCEPT ![i] = "checked"]
            /\ UNCHANGED <<lock_file, returned>>
       ELSE IF Alive(lock_file)
       THEN /\ dnd_pc' = [dnd_pc EXCEPT ![i] = "refused"]
            /\ returned' = [returned EXCEPT ![i] = "False"]
            /\ UNCHANGED lock_file
       ELSE /\ lock_file' = "absent"
            /\ dnd_pc' = [dnd_pc EXCEPT ![i] = "checked"]
            /\ UNCHANGED returned
    /\ UNCHANGED <<dnd_running, signalled, processes, sent, probe, sceneVars,
                   fnVars>>

\* _create_lock_file
create_lock_file(i) ==
    /\ dnd_pc[i] = "checked"
    /\ lock_file' = i
    /\ dnd_pc' = [dnd_pc EXCEPT ![i] = "locked"]
    /\ UNCHANGED <<dnd_running, signalled, processes, sent, probe, returned,
                   sceneVars, fnVars>>

\* _start_ollama and, when it answers True, self.running = True; script
\* tells whether script_path exists, p is the answer to the health check
start_ollama(i, script, p) ==
    /\ dnd_pc[i] = "locked"
    /\ IF ~script
       THEN /\ dnd_pc' = [dnd_pc EXCEPT ![i] = "cleanup"]
            /\ UNCHANGED <<processes, probe, dnd_running>>
       ELSE /\ processes' = [processes EXCEPT ![i] = "running"]
            /\ probe' = [probe EXCEPT ![i] = p]
            /\ IF health_check_ollama(p)
               THEN /\ dnd_running' = [dnd_running EXCEPT ![i] = TRUE]
                    /\ dnd_pc' = [dnd_pc EXCEPT ![i] = "loop"]
               ELSE /\ dnd_pc' = [dnd_pc EXCEPT ![i] = "cleanup"]
                    /\ UNCHANGED dnd_running
    /\ UNCHANGED <<lock_file, signalled, sent, returned, sceneVars, fnVars>>

\* The process started by Popen ends by itself
process_exits(i) ==
    /\ processes[i] = "running"
    /\ dnd_pc[i] \in {"loop", "cleanup"}
    /\ processes' = [processes EXCEPT ![i] = "exited"]
    /\ UNCHANGED <<lock_file, dnd_pc, dnd_running, signalled, sent, probe,
                   returned, sceneVars, fnVars>>

\* "while self.running" is left
leave_loop(i) ==
    /\ dnd_pc[i] = "loop"
    /\ ~dnd_running[i]
    /\ dnd_pc' = [dnd_pc EXCEPT ![i] = "cleanup"]
    /\ UNCHANGED <<lock_file, dnd_running, signalled, processes, sent, probe,
                   returned, sceneVars, fnVars>>

\* A cleanup that kills at once, whatever the process does
cleanup_processes_KillAtOnce(i, grace) ==
    IF processes[i] = "running"
    THEN /\ sent' = [sent EXCEPT ![i] = @ \o <<"SIGKILL">>]
         /\ processes' = [processes EXCEPT ![i] = "killed"]
    ELSE UNCHANGED <<sent, processes>>

\* _cleanup_processes for the one entry of self.processes; grace tells
\* whether process.wait(timeout=10) returns before the timeout
cleanup_processes(i, grace) ==
    IF processes[i] = "running"
    THEN IF grace
         THEN /\ sent' = [sent EXCEPT ![i] = @ \o <<"SIGTERM">>]
              /\ processes' = [processes EXCEPT ![i] = "terminated"]
         ELSE /\ sent' = [sent EXCEPT ![i] = @ \o <<"SIGTERM", "SIGKILL">>]
              /\ processes' = [processes EXCEPT ![i] = "killed"]
    ELSE UNCHANGED <<sent, processes>>

\* finally: _cleanup_processes and _remove_lock_file; run() returns True
\* when the loop was entered, False otherwise
cleanup(i, grace) ==
    /\ dnd_pc[i] = "cleanup"
    /\ cleanup_processes(i, grace)
    /\ lock_file' = "absent"
    /\ dnd_pc' = [dnd_pc EXCEPT ![i] = "exited"]
    /\ returned' = [returned EXCEPT ![i] =
                      IF health_check_ollama(probe[i]) THEN "True" ELSE "False"]
    /\ UNCHANGED <<dnd_running, signalled, probe, sceneVars, fnVars>>

\* _signal_handler of DnDVisualizerRunner: SIGINT or SIGTERM is delivered
signal_handler(i) ==
    /\ dnd_pc[i] \notin Exited
    /\ dnd_running' = [dnd_running EXCEPT ![i] = FALSE]
    /\ signalled' = [signalled EXCEPT ![i] = TRUE]
    /\ UNCHANGED <<lock_file, dnd_pc, processes, sent, probe, returned,
                   sceneVars, fnVars>>

\* The processes are constructed (signal handlers installed); the lock file
\* is absent, or left by an earlier process that is dead, or unreadable
DndInit ==
    /\ SceneInit(MissingFile)
    /\ transcripts = [f \in Files |-> 0]
    /\ scene = [f \in Files |-> NoOutput]
    /\ lock_file \in {"absent", "dead", "garbage"}
    /\ dnd_pc = [i \in Instances |-> "new"]
    /\ dnd_running = [i \in Instances |-> FALSE]
    /\ signalled = [i \in Instances |-> FALSE]
    /\ processes = [i \in Instances |-> "none"]
    /\ sent = [i \in Instances |-> <<>>]
    /\ probe = [i \in Instances |-> NoProbe]
    /\ returned = [i \in Instances |-> "none"]
    /\ FnOff

\* The steps of run() in process i
DndStep(i) ==
    \/ check_lock_file(i)
    \/ create_lock_file(i)
    \/ \E script \in BOOLEAN, p \in Probes : start_ollama(i, script, p)
    \/ leave_loop(i)
    \/ \E grace \in BOOLEAN : cleanup(i, grace)

DndNext ==
    \/ \E i \in Instances : check_lock_file(i)
    \/ \E i \in Instances : create_lock_file(i)
    \/ \E i \in Instances, script \in BOOLEAN, p \in Probes :
           start_ollama(i, script, p)
    \/ \E i \in Instances : process_exits(i)
    \/ \E i \in Instances : leave_loop(i)
    \/ \E i \in Instances, grace \in BOOLEAN : cleanup(i, grace)
    \/ \E i \in Instances : signal_handler(i)

DndSpec == DndInit /\ [][DndNext]_vars

\* Every process keeps being scheduled
DndFairSpec == DndSpec /\ \A i \in Instances : WF_vars(DndStep(i))

----------------------------------------------------------------------------
\* This step ends the call r of process_new_transcript (run() goes on)
RunEnds(r) ==
    /\ BagIn(r, runs)
    /\ CopiesIn(r, runs') = CopiesIn(r, runs) - 1
    /\ BagCardinality(runs') = BagCardinality(runs) - 1
    /\ pc' = pc

\* This step ends the call r after an image-client call that raised e
FailsWith(r, e) ==
    /\ RunEnds(r) /\ r.c # 0
    /\ lastRun'[r.f] = "failed" /\ lastError'[r.f] = e

\* C12: a run whose image-client calls were all refused has made exactly
\* max_retries calls when it ends; it writes the error file with
\* failed_attempts = max_retries and leaves the metadata file alone.
C12_RefusedEveryAttempt ==
    [][\A r \in BagToSet(runs) :
         FailsWith(r, "refused") =>
             /\ r.n + 1 = max_retries
             /\ scene'[r.f].error
             /\ scene'[r.f].failed_attempts = max_retries
             /\ scene'[r.f].metadata = scene[r.f].metadata]_vars

\* C12 witness: a run has ended after its third refused call
C12_Witness ==
    \E f \in Files :
        /\ lastRun[f] = "failed" /\ lastError[f] = "refused"
        /\ scene[f].error /\ scene[f].failed_attempts = max_retries
        /\ RunsOf(f) = 0

\* C13: a run that ends on a response with the key "error" writes the error
\* file and does not write the metadata file.
C13_ServerErrorFails ==
    [][\A r \in BagToSet(runs) :
         (RunEnds(r) /\ r.c # 0 /\ lastRun'[r.f] = "server_error") =>
             /\ scene'[r.f].error
             /\ scene'[r.f].metadata = scene[r.f].metadata]_vars

\* C14: a run ends on a refused connection or a timeout only when it has
\* made max_retries attempts; before that, another attempt follows.
C14_UnreachableRetried ==
    [][\A r \in BagToSet(runs) :
         (FailsWith(r, "refused") \/ FailsWith(r, "timeout")) =>
             r.n + 1 >= max_retries]_vars

\* C15: after a ServerError or a ProtocolError the run makes no further
\* image-client call: no active run has such an error behind it.
C15_NoCallAfterError ==
    \A r \in BagToSet(runs) : r.e \notin {"server_error", "protocol_error"}

\* C15 witness: a run has ended on a ProtocolError and a later run of the
\* same scene on a ServerError
C15_Witness ==
    \E f \in Files :
        /\ lastError[f] = "protocol_error" /\ lastRun[f] = "server_error"
        /\ RunsOf(f) = 0

\* C16: the "error" key of an error file holds the message of the exception
\* that ended the run which wrote it.
C16_ErrorRecordsReason ==
    \A f \in Files :
        (scene[f].error /\ lastError[f] # "none") =>
            scene[f].error_text = ExceptionMessage(lastError[f])

\* C17: a run whose LLM call failed makes no image-client call.
C17_LLMFailureEndsRun ==
    [][~ \E r \in BagToSet(runs) :
           /\ r.prompt = "fallback" /\ r.c # 0
           /\ CopiesIn(r, runs') < CopiesIn(r, runs)
           /\ pc' = pc]_vars

\* C18: a run that cannot read its transcript ends with the error file of
\* its scene written.
C18_ParseErrorWritten ==
    [][\A r \in BagToSet(runs) :
         (RunEnds(r) /\ r.c = 0) => scene'[r.f].error]_vars

\* A process that has created the lock file and not yet returned from run()
PastLock(i) == dnd_pc[i] \in {"locked", "loop", "cleanup"}

\* C19: at most one instance at a time is past lock acquisition.
C19_SingleInstance ==
    \A i, j \in Instances : (PastLock(i) /\ PastLock(j)) => i = j

\* C20: a SIGINT or SIGTERM delivered to a runner after its handlers were
\* installed eventually makes it leave the main loop and shut down.
C20_SignalShutsDown ==
    \A i \in Instances : signalled[i] ~> (dnd_pc[i] \in Exited)

\* C21: _cleanup_processes sends SIGTERM first to the group of a process that
\* is still running and SIGKILL only after it, and only when the process did
\* not exit within the wait; a process that had exited gets no signal; when
\* run() has returned, no process of self.processes is running.
C21_TermThenKill ==
    \A i \in Instances :
        /\ sent[i] \in {<<>>, <<"SIGTERM">>, <<"SIGTERM", "SIGKILL">>}
        /\ (sent[i] = <<"SIGTERM", "SIGKILL">>) <=> (processes[i] = "killed")
        /\ (sent[i] = <<"SIGTERM">>) <=> (processes[i] = "terminated")
        /\ processes[i] \in {"none", "exited"} => sent[i] = <<>>
        /\ dnd_pc[i] = "exited" => processes[i] # "running"

\* C21 witness: one runner's process was killed after the wait timed out,
\* the other runner's process had exited before the cleanup
C21_Witness ==
    \E i, j \in Instances :
        /\ dnd_pc[i] = "exited" /\ processes[i] = "killed"
        /\ dnd_pc[j] = "exited" /\ processes[j] = "exited"

\* The probe answered HTTP 200 and listed the required model
AnsweredHealthy(p) == p.status = 200 /\ required_model \in p.models

\* C22: the loop is entered only after a health check that answered HTTP 200
\* and listed the required model, and after such a check it is entered; when
\* the check is unhealthy, run() returns False with the started process
\* stopped and the lock file removed.
C22_LoopOnlyWhenHealthy ==
    /\ [](\A i \in Instances :
            /\ dnd_pc[i] = "loop" => AnsweredHealthy(probe[i])
            /\ AnsweredHealthy(probe[i]) =>
                   /\ dnd_pc[i] \in {"loop", "cleanup", "exited"}
                   /\ returned[i] # "False"
            /\ (probe[i] # NoProbe /\ ~AnsweredHealthy(probe[i])) =>
                   /\ dnd_pc[i] \in {"cleanup", "exited"}
                   /\ dnd_pc[i] = "exited" =>
                          (returned[i] = "False" /\ processes[i] # "running"))
    /\ [][\A i \in Instances :
            (dnd_pc[i] = "cleanup" /\ dnd_pc'[i] = "exited"
               /\ probe[i] # NoProbe /\ ~AnsweredHealthy(probe[i])) =>
                (lock_file' = "absent" /\ processes'[i] # "running")]_vars

\* C22 witness: a runner whose host answered 200 without the required model
\* has returned False with its process stopped
C22_Witness ==
    \E i \in Instances :
        /\ probe[i].status = 200 /\ probe[i].models = {"other"}
        /\ dnd_pc[i] = "exited" /\ returned[i] = "False"
        /\ processes[i] \in {"terminated", "killed"}
        /\ lock_file = "absent"

\* A step of a pass, at startup or in the tracking loop, that finds at least
\* one difference
PassUpdates == syncPc \in {"idle", "init_sync"} /\ syncPc' = "write_sync"

\* C24: in every pass, the one at startup included, a scanned file without a
\* record is inserted as completed and no run is started when both outputs
\* exist, and otherwise is inserted as new and a run is started for it.
C24_NewFileEnqueued ==
    [][\A f \in Files :
         (PassUpdates /\ IsNewFile(trackingFile.transcripts, f)) =>
             IF check_for_existing_output(f)
             THEN /\ pending'.transcripts[f].status = "completed"
                  /\ RunsOf(f)' = RunsOf(f)
             ELSE /\ pending'.transcripts[f].status = "new"
                  /\ RunsOf(f)' = RunsOf(f) + 1]_vars

\* C29: a pass that finds a tracked file with a changed hash writes a record
\* with status modified whose previous_status is the status the record had
\* before the pass, whatever that status was.
C29_PreviousStatusKept ==
    [][\A f \in Files :
         (PassUpdates /\ IsChangedFile(trackingFile.transcripts, f)) =>
             /\ pending'.transcripts[f].status = "modified"
             /\ pending'.transcripts[f].previous_status =
                    trackingFile.transcripts[f].status]_vars

\* C29 witness: a second change of a file was recorded, the record of the
\* first change being the one it replaced
C29_Witness ==
    \E f \in Files :
        /\ syncPc = "idle" /\ trackingFile.state = "valid"
        /\ trackingFile.transcripts[f].status = "modified"
        /\ trackingFile.transcripts[f].previous_status = "modified"

\* get_tracking_status: what the healthcheck reads from the tracking file
get_tracking_status ==
    IF trackingFile.state = "missing" THEN "no_tracking_file"
    ELSE IF trackingFile.state # "valid" THEN "error"
    ELSE IF \A f \in Files :
               (trackingFile.transcripts[f].status # "none")
                   <=> (transcripts[f] # 0)
         THEN "synchronized"
         ELSE "not_synchronized"

\* A healthcheck that rewrites the tracking file when it is out of step
healthcheck_Repairs ==
    /\ pc = "running" /\ running
    /\ health' = get_tracking_status
    /\ trackingFile' = IF get_tracking_status = "not_synchronized"
                       THEN InitialTracking
                       ELSE trackingFile
    /\ UNCHANGED <<hc, resp, rt, dndVars, lastError, repairVars, moreVars>>
    /\ UNCHANGED <<transcripts, mtimeOrder, scene, pending, syncPc,
                   current_files, lastSync, pc, running, observer, events,
                   runs, lastRun, redrop, envOps>>

\* One pass of _healthcheck_loop
healthcheck ==
    /\ pc = "running" /\ running
    /\ health' = get_tracking_status
    /\ UNCHANGED <<hc, resp, rt, dndVars, lastError, repairVars, moreVars>>
    /\ UNCHANGED <<transcripts, mtimeOrder, scene, trackingFile, pending,
                   syncPc, current_files, lastSync, pc, running, observer,
                   events, runs, lastRun, redrop, envOps>>

\* The pipeline with its healthcheck thread, one transcript being written
OwnNext ==
    \/ \E c \in Contents : EnvWrite("sz001", c)
    \/ EnvDelete("sz001")
    \/ BeginInitialize
    \/ FinishInitialize
    \/ SyncPass
    \/ FinishPersist
    \/ Bootstrap
    \/ Launch
    \/ Signal
    \/ Shutdown
    \/ on_created
    \/ Parse
    \/ Render
    \/ healthcheck

OwnSpec == ProcInit /\ [][OwnNext]_vars

\* A write of the tracking file is under way: open(..., 'w') has truncated
\* the file and json.dump has not returned
Writing == syncPc \in {"write_init", "write_sync"}

\* This step takes a run out of the active ones, takes an event from the
\* observer's queue, or changes what the healthcheck found: the steps of the
\* Scene Processor runs, of the watcher's callback and of the healthcheck
OtherComponentStep ==
    \/ \E r \in BagToSet(runs) : CopiesIn(r, runs') < CopiesIn(r, runs)
    \/ Len(events') < Len(events)
    \/ health' # health

\* C30: the tracking file changes only in steps of _initialize_tracking and
\* _sync_tracking_with_filesystem; no step of a Scene Processor run, of the
\* watcher's callback or of the healthcheck changes it; and no write of the
\* file begins while another one is under way.
C30_ReconcilerOnlyWriter ==
    [][/\ trackingFile' # trackingFile => syncPc' # syncPc
       /\ OtherComponentStep =>
              (trackingFile' = trackingFile /\ pending' = pending)
       /\ (trackingFile' = PartialFile /\ pending' # pending) => ~Writing]_vars

\* C30 witness: a run has completed its scene and the healthcheck has looked
\* at the tracking file, whose record of the scene still says new
C30_Witness ==
    \E f \in Files :
        /\ lastRun[f] = "ok" /\ RunsOf(f) = 0
        /\ health = "synchronized"
        /\ trackingFile.state = "valid"
        /\ trackingFile.transcripts[f].status = "new"

----------------------------------------------------------------------------
(***************************************************************************)
(* The image service health check of the interval runner                   *)
(* (dnd_visualizer_runner.py, _health_check_image_service).                *)
(***************************************************************************)

\* The largest max_retries the configuration asks for
MaxImgRetries == 4

\* What one pass of the retry loop can meet: connect_ex returns 0, returns
\* an errno, or the socket call raises
ConnectResults == {"connected", "refused", "timed_out", "raised"}

\* The pipeline and the interval runner are not running
idleVars == <<sceneVars, dndVars, resp, rt, health, moreVars>>

\* _health_check_image_service is called; readable tells whether the
\* configuration file of the image service exists and can be loaded, m is
\* max_retries of the runner's configuration
health_check_image_service(readable, m) ==
    /\ hc.result # "probing"
    /\ hc' = [config |-> readable, max_retries |-> m, attempt |-> 0,
              trace |-> <<>>,
              result |-> IF readable /\ m > 0 THEN "probing"
                                              ELSE "unreachable"]
    /\ UNCHANGED idleVars

\* A retry loop that does not sleep
connect_attempt_NoSleep(c) ==
    /\ hc.result = "probing"
    /\ hc' = IF c = "connected"
             THEN [hc EXCEPT !.attempt = @ + 1, !.trace = Append(@, c),
                             !.result = "reachable"]
             ELSE IF hc.attempt < hc.max_retries - 1
             THEN [hc EXCEPT !.attempt = @ + 1, !.trace = Append(@, c)]
             ELSE [hc EXCEPT !.attempt = @ + 1, !.trace = Append(@, c),
                             !.result = "unreachable"]
    /\ UNCHANGED idleVars

\* One pass of the retry loop, with the return that follows the last pass
connect_attempt(c) ==
    /\ hc.result = "probing"
    /\ hc' = IF c = "connected"
             THEN [hc EXCEPT !.attempt = @ + 1, !.trace = Append(@, c),
                             !.result = "reachable"]
             ELSE IF hc.attempt < hc.max_retries - 1
             THEN [hc EXCEPT !.attempt = @ + 1,
                             !.trace = @ \o <<c, "sleep">>]
             ELSE [hc EXCEPT !.attempt = @ + 1, !.trace = Append(@, c),
                             !.result = "unreachable"]
    /\ UNCHANGED idleVars

HcNext ==
    \/ \E readable \in BOOLEAN, m \in 0..MaxImgRetries :
           health_check_image_service(readable, m)
    \/ \E c \in ConnectResults : connect_attempt(c)

\* Nothing is running: the directories are empty, no runner is started
IdleInit ==
    /\ SceneInit(MissingFile)
    /\ transcripts = [f \in Files |-> 0]
    /\ scene = [f \in Files |-> NoOutput]
    /\ DndOff
    /\ FnOff

HcSpec == IdleInit /\ [][HcNext]_vars

\* The connect attempts of the call, in order
Attempts(trace) == SelectSeq(trace, LAMBDA x : x # "sleep")

\* Every failed attempt but the last allowed one is followed by a sleep,
\* and a sleep only follows a failed attempt that another attempt follows
SleepsBetween(trace, finished) ==
    /\ \A k \in 1..Len(trace) :
          trace[k] = "sleep" =>
              /\ k > 1 /\ trace[k - 1] \notin {"sleep", "connected"}
              /\ (k < Len(trace) => trace[k + 1] # "sleep")
              /\ (k = Len(trace) => ~finished)
    /\ \A k \in 1..(Len(trace) - 1) :
          trace[k] # "sleep" => trace[k + 1] = "sleep"

----------------------------------------------------------------------------
(***************************************************************************)
(* The transcript parser (parse_scene_transkript.py).  A line is a         *)
(* sequence of pieces of text: a well-formed "[MM:SS.ss - MM:SS.ss]", a    *)
(* bracket the pattern does not match, a space, a letter.                  *)
(***************************************************************************)

\* Lines of a transcript below the header, and pieces of one line
MaxLines == 2
MaxLineLen == 3

\* Pieces that are text of the form [MM:SS.ss - MM:SS.ss]
Stamps == {"[00:00.00 - 00:05.00]", "[00:05.00 - 00:09.50]"}

\* The two groups of the pattern in such a piece
StampStart(t) == IF t = "[00:00.00 - 00:05.00]" THEN "00:00.00" ELSE "00:05.00"
StampEnde(t) == IF t = "[00:00.00 - 00:05.00]" THEN "00:05.00" ELSE "00:09.50"

\* The pieces a line is made of
Pieces == Stamps \cup {"[0:05 - 0:09]", " ", "a"}

Lines == UNION {[1..n -> Pieces] : n \in 0..MaxLineLen}

HeaderLine == <<"ZEITGESTEMPELTE SEGMENTE:">>

\* The transcript files: the header and the lines below it
Dateien == {<<HeaderLine>> \o body :
               body \in UNION {[1..n -> Lines] : n \in 0..MaxLines}}

\* str.lstrip, str.rstrip and str.strip on a line
RECURSIVE LStrip(_)
LStrip(s) == IF s # <<>> /\ Head(s) = " " THEN LStrip(Tail(s)) ELSE s

RECURSIVE RStrip(_)
RStrip(s) ==
    IF s # <<>> /\ s[Len(s)] = " " THEN RStrip(SubSeq(s, 1, Len(s) - 1)) ELSE s

Strip(s) == LStrip(RStrip(s))

\* inhalt.strip().split('\n') on a file that begins with the header: the
\* blank lines at the end go, the last line left loses its trailing spaces
RECURSIVE StripSplit(_)
StripSplit(zeilen) ==
    IF zeilen = <<>> THEN <<>>
    ELSE LET last == zeilen[Len(zeilen)]
             rest == SubSeq(zeilen, 1, Len(zeilen) - 1)
         IN  IF Strip(last) = <<>> THEN StripSplit(rest)
             ELSE Append(rest, RStrip(last))

\* re.match(r'\[(\d{2}:\d{2}\.\d{2}) - (\d{2}:\d{2}\.\d{2})\] (.+)', zeile)
SegmentMatch(zeile) ==
    /\ Len(zeile) >= 3
    /\ zeile[1] \in Stamps
    /\ zeile[2] = " "

\* The segment appended for a matching line
Segment(zeile) ==
    [start |-> StampStart(zeile[1]), ende |-> StampEnde(zeile[1]),
     text |-> Strip(SubSeq(zeile, 3, Len(zeile)))]

\* The loop of _parse_transkript over the lines, zeitstempel_start telling
\* whether the header was passed
RECURSIVE ParseZeilen(_, _)
ParseZeilen(zeilen, zeitstempel_start) ==
    IF zeilen = <<>> THEN <<>>
    ELSE LET zeile == Head(zeilen) IN
         IF Strip(zeile) = HeaderLine
         THEN ParseZeilen(Tail(zeilen), TRUE)
         ELSE IF zeitstempel_start /\ Strip(zeile) # <<>> /\ SegmentMatch(zeile)
         THEN <<Segment(zeile)>> \o ParseZeilen(Tail(zeilen), zeitstempel_start)
         ELSE ParseZeilen(Tail(zeilen), zeitstempel_start)

\* _parse_transkript: the segments of a file
parse_transkript(datei) == ParseZeilen(StripSplit(datei), FALSE)

\* f"[{segment['start']} - {segment['ende']}] " for a segment
FormatStamp(segment) ==
    CHOOSE t \in Stamps :
        StampStart(t) = segment.start /\ StampEnde(t) = segment.ende

\* get_segmente_als_text: one line per segment
get_segmente_als_text(segmente) ==
    [i \in 1..Len(segmente) |->
        <<FormatStamp(segmente[i]), " ">> \o segmente[i].text]

\* SceneTranskriptParser(datei): a transcript is parsed
Parsen ==
    /\ rt.pc = "idle"
    /\ \E datei \in Dateien :
          rt' = [rt EXCEPT !.pc = "parsed", !.datei = datei,
                           !.segmente = parse_transkript(datei)]
    /\ UNCHANGED <<sceneVars, dndVars, hc, resp, health, moreVars>>

\* The segments are written below the header and that text is parsed
Zurueckschreiben ==
    /\ rt.pc = "parsed"
    /\ LET text == get_segmente_als_text(rt.segmente)
       IN  rt' = [rt EXCEPT !.pc = "reparsed", !.text = text,
                            !.wieder = parse_transkript(<<HeaderLine>> \o text)]
    /\ UNCHANGED <<sceneVars, dndVars, hc, resp, health, moreVars>>

\* Lines of a transcript above the header of the segments
MaxKopf == 2

\* The pieces of such a line: a metadata key the parser knows, a key it does
\* not know, a space, a letter
KopfPieces == {"Datum:", "Ort:", " ", "a"}

Kopfzeilen == UNION {[1..n -> KopfPieces] : n \in 0..MaxLineLen}

\* What stands below those lines: nothing, a segment, a line that the
\* pattern of the segments does not match
Rumpf ==
    {<<>>, <<HeaderLine, <<"[00:00.00 - 00:05.00]", " ", "a">>>>,
     <<HeaderLine, <<"[0:05 - 0:09]", " ", "a">>,
       <<"[00:05.00 - 00:09.50]", " ", "a">>>>}

KopfDateien ==
    {kopf \o rumpf : kopf \in UNION {[1..n -> Kopfzeilen] : n \in 0..MaxKopf},
                     rumpf \in Rumpf}

\* inhalt.strip().split('\n') on any file: the blank lines at both ends go,
\* the first line left loses its leading spaces, the last its trailing ones
RECURSIVE StripInhalt(_)
StripInhalt(zeilen) ==
    IF zeilen = <<>> THEN <<>>
    ELSE IF Strip(Head(zeilen)) = <<>> THEN StripInhalt(Tail(zeilen))
    ELSE StripSplit(<<LStrip(Head(zeilen))>> \o Tail(zeilen))

\* The index of the first ': ' of a line, 0 when there is none
Separator(zeile) ==
    LET places == {i \in 1..(Len(zeile) - 1) :
                      zeile[i] \in {"Datum:", "Ort:"} /\ zeile[i + 1] = " "}
    IN  IF places = {} THEN 0
        ELSE CHOOSE i \in places : \A j \in places : i <= j

\* zeile.split(': ', 1)[1]
SplitValue(zeile) ==
    IF Separator(zeile) = 0 THEN <<"IndexError">>
    ELSE SubSeq(zeile, Separator(zeile) + 2, Len(zeile))

\* The loop over zeilen[:10]: the values stored under 'datum', in the order
\* of the lines, up to the first line whose split has one part
RECURSIVE ParseMetadaten(_)
ParseMetadaten(zeilen) ==
    IF zeilen = <<>> THEN <<>>
    ELSE LET zeile == Head(zeilen) IN
         IF zeile # <<>> /\ Head(zeile) = "Datum:"
         THEN IF SplitValue(zeile) = <<"IndexError">>
              THEN <<SplitValue(zeile)>>
              ELSE <<SplitValue(zeile)>> \o ParseMetadaten(Tail(zeilen))
         ELSE ParseMetadaten(Tail(zeilen))

\* SceneTranskriptParser(datei) for a file that exists: the constructor
\* calls _parse_transkript, whose exceptions it does not catch
Konstruieren ==
    /\ rt.pc = "idle"
    /\ \E datei \in KopfDateien :
          LET zeilen == StripInhalt(datei)
              werte == ParseMetadaten(zeilen)
              failed == werte # <<>> /\ werte[Len(werte)] = <<"IndexError">>
          IN  rt' = [rt EXCEPT
                       !.pc = "constructed",
                       !.datei = datei,
                       !.raised = IF failed THEN "IndexError" ELSE "none",
                       !.metadata = IF failed THEN <<>> ELSE werte,
                       !.segmente = IF failed THEN <<>>
                                    ELSE ParseZeilen(zeilen, FALSE)]
    /\ UNCHANGED <<sceneVars, dndVars, hc, resp, health, moreVars>>

RtNext == Parsen \/ Zurueckschreiben \/ Konstruieren

RtSpec == IdleInit /\ [][RtNext]_vars

\* C27: the segments parsed from the written-back text are the segments
\* parsed from the file: same number, order, start, end and text, a segment
\* whose text is empty after trimming included.
C27_RoundTrip ==
    rt.pc = "reparsed" => rt.wieder = rt.segmente

\* The lines of a file that the pattern of the segments matches
SegmentLines(datei) ==
    SelectSeq(datei, LAMBDA zeile : Strip(zeile) # <<>> /\ SegmentMatch(zeile))

\* C32: the constructor of the parser returns for every file that exists,
\* also when a line begins with a known metadata key and has no ': ';
\* lines with unknown keys add nothing to the metadata, and the segments
\* are those of the lines that match the pattern.
C32_ParsingTotal ==
    rt.pc = "constructed" =>
        /\ rt.raised = "none"
        /\ Len(rt.metadata) =
               Len(SelectSeq(StripInhalt(rt.datei),
                             LAMBDA zeile : zeile # <<>> /\ Head(zeile) = "Datum:"))
        /\ Len(rt.segmente) <= Len(SegmentLines(StripInhalt(rt.datei)))

----------------------------------------------------------------------------
(***************************************************************************)
(* What is made of an LLM response: the clean-up of the image name in      *)
(* parse_llm_response (dnd_image_generator.py).  A name is a sequence of   *)
(* characters.                                                             *)
(***************************************************************************)

\* Characters of a name candidate that is drawn in full
MaxNameLen == 5

\* "Begrenze Länge auf 35 Zeichen"
NameLimit == 35

\* "if len(clean_image_name) < 3"
NameMin == 3

\* The characters of a candidate: two letters, the underscore, a space, the
\* asterisk of LLM formatting, the parentheses, a non-ASCII letter
NameChars == {"a", "b", "_", " ", "*", "(", ")", "é"}

Digits == <<"0", "1", "2", "3", "4", "5", "6", "7", "8", "9">>

\* [a-zA-Z0-9_]
AsciiWord ==
    {"a", "b", "c", "d", "e", "f", "g", "h", "i", "j", "k", "l", "m", "n",
     "o", "p", "q", "r", "s", "t", "u", "v", "w", "x", "y", "z",
     "A", "B", "C", "D", "E", "F", "G", "H", "I", "J", "K", "L", "M", "N",
     "O", "P", "Q", "R", "S", "T", "U", "V", "W", "X", "Y", "Z", "_"}
        \cup {Digits[k] : k \in 1..10}

\* n times the letter a
RECURSIVE Pad(_)
Pad(n) == IF n = 0 THEN <<>> ELSE <<"a">> \o Pad(n - 1)

\* str.strip() of group(1): no space at either end
Stripped(s) == s = <<>> \/ (Head(s) # " " /\ s[Len(s)] # " ")

\* The candidates: short ones, and short ones behind two letters or behind
\* as many letters as bring them to the length limit
Candidates ==
    {c \in {pre \o t : pre \in {<<>>, Pad(2), Pad(NameLimit - 2)},
                       t \in UNION {[1..n -> NameChars] : n \in 0..MaxNameLen}} :
        Stripped(c)}

\* The hours and minutes datetime.now() can show
Clocks == {<<0, 5>>, <<23, 59>>}

\* strftime("%H%M")
strftime_HM(clock) ==
    <<Digits[(clock[1] \div 10) + 1], Digits[(clock[1] % 10) + 1],
      Digits[(clock[2] \div 10) + 1], Digits[(clock[2] % 10) + 1]>>

\* s without the characters of C at its start, at its end
RECURSIVE DropLeading(_, _)
DropLeading(s, C) ==
    IF s # <<>> /\ Head(s) \in C THEN DropLeading(Tail(s), C) ELSE s

RECURSIVE DropTrailing(_, _)
DropTrailing(s, C) ==
    IF s # <<>> /\ s[Len(s)] \in C
    THEN DropTrailing(SubSeq(s, 1, Len(s) - 1), C)
    ELSE s

\* re.sub(r'^\*+\s*|\s*\*+$', '', name)
strip_stars(s) ==
    LET lead == IF s # <<>> /\ Head(s) = "*"
                THEN DropLeading(DropLeading(s, {"*"}), {" "})
                ELSE s
    IN  IF lead # <<>> /\ lead[Len(lead)] = "*"
        THEN DropTrailing(DropTrailing(lead, {"*"}), {" "})
        ELSE lead

\* Index of the first ")" of s, 0 when there is none
FirstClose(s) ==
    IF \E k \in 1..Len(s) : s[k] = ")"
    THEN CHOOSE k \in 1..Len(s) :
             s[k] = ")" /\ \A j \in 1..(k - 1) : s[j] # ")"
    ELSE 0

\* re.sub(r'\s*\([^)]*\)', '', name): out is what was copied so far
RECURSIVE remove_brackets(_, _)
remove_brackets(out, s) ==
    IF s = <<>> THEN out
    ELSE IF Head(s) = "(" /\ FirstClose(s) # 0
    THEN remove_brackets(DropTrailing(out, {" "}),
                         SubSeq(s, FirstClose(s) + 1, Len(s)))
    ELSE remove_brackets(Append(out, Head(s)), Tail(s))

\* re.sub(r'[^\x00-\x7F]', '_', name) and re.sub(r'[^a-zA-Z0-9_]', '_', name)
to_word_chars(s) ==
    [k \in 1..Len(s) |-> IF s[k] \in AsciiWord THEN s[k] ELSE "_"]

\* re.sub(r'_{2,}', '_', name)
RECURSIVE collapse_underscores(_)
collapse_underscores(s) ==
    IF Len(s) < 2 THEN s
    ELSE IF s[1] = "_" /\ s[2] = "_" THEN collapse_underscores(Tail(s))
    ELSE <<Head(s)>> \o collapse_underscores(Tail(s))

generated_scene ==
    <<"g", "e", "n", "e", "r", "a", "t", "e", "d", "_",
      "s", "c", "e", "n", "e">>

\* The clean-up of the name, up to the timestamp
clean_image_name(name) ==
    LET a == strip_stars(name)
        b == remove_brackets(<<>>, a)
        c == to_word_chars(b)
        d == collapse_underscores(c)
        e == DropTrailing(DropLeading(d, {"_"}), {"_"})
        f == IF Len(e) < NameMin THEN generated_scene ELSE e
    IN  IF Len(f) > NameLimit
        THEN DropTrailing(SubSeq(f, 1, NameLimit), {"_"})
        ELSE f

\* f"{minute_timestamp}_{clean_image_name}"
timestamped_name(name, clock) ==
    strftime_HM(clock) \o <<"_">> \o clean_image_name(name)

----------------------------------------------------------------------------
(***************************************************************************)
(* parse_llm_response on a response text.  A text is a sequence of words;  *)
(* two words are one space apart, the word "\n" is a line break.           *)
(***************************************************************************)

\* Words of a response text
MaxWords == 5

Words ==
    {"DNDSTYLE", "IMAGE", "PROMPT:", "NAME:", "dndstyle", "dragon", "\n",
     "<think>", "</think>"}

Texts == UNION {[1..n -> Words] : n \in 0..MaxWords}

\* re.IGNORECASE, for the one word the texts hold in both cases
Fold(w) == IF w = "DNDSTYLE" THEN "dndstyle" ELSE w

FoldAll(t) == [k \in 1..Len(t) |-> Fold(t[k])]

\* The characters of a word
Spell(w) ==
    CASE w = "DNDSTYLE" -> <<"D", "N", "D", "S", "T", "Y", "L", "E">>
      [] w = "IMAGE"    -> <<"I", "M", "A", "G", "E">>
      [] w = "PROMPT:"  -> <<"P", "R", "O", "M", "P", "T", ":">>
      [] w = "NAME:"    -> <<"N", "A", "M", "E", ":">>
      [] w = "dndstyle" -> <<"d", "n", "d", "s", "t", "y", "l", "e">>
      [] w = "dragon"   -> <<"d", "r", "a", "g", "o", "n">>
      [] w = "<think>"  -> <<"<", "t", "h", "i", "n", "k", ">">>
      [] w = "</think>" -> <<"<", "/", "t", "h", "i", "n", "k", ">">>
      [] OTHER          -> <<w>>

\* The characters of a line of words
RECURSIVE SpellAll(_)
SpellAll(t) ==
    IF t = <<>> THEN <<>>
    ELSE IF Len(t) = 1 THEN Spell(t[1])
    ELSE Spell(t[1]) \o <<" ">> \o SpellAll(Tail(t))

\* The words of t from index i on
From(t, i) == SubSeq(t, i, Len(t))

\* label stands in t at index i, whatever the case
Occurs(t, label, i) ==
    /\ i + Len(label) - 1 <= Len(t)
    /\ FoldAll(SubSeq(t, i, i + Len(label) - 1)) = FoldAll(label)

\* The words behind the first place of t where label stands and is followed
\* by at least `least' words, the number the pattern needs there; <<>> when
\* there is no such place
Behind(t, label, least) ==
    LET places == {i \in 1..Len(t) :
                      /\ Occurs(t, label, i)
                      /\ Len(t) - (i + Len(label) - 1) >= least}
    IN  IF places = {} THEN <<>>
        ELSE LET i == CHOOSE i \in places : \A j \in places : i <= j
             IN  From(t, i + Len(label))

\* (?=\nIMAGE NAME:|$) holds behind the first k words of r
Lookahead(r, k) ==
    \/ k = Len(r)
    \/ k = Len(r) - 1 /\ r[Len(r)] = "\n"
    \/ /\ k + 3 <= Len(r)
       /\ r[k + 1] = "\n" /\ r[k + 2] = "IMAGE" /\ r[k + 3] = "NAME:"

\* group(1).strip() of "(.+?)(?=\nIMAGE NAME:|$)" with re.DOTALL, matched
\* against the words r that follow the label and its white space
PromptGroup(r) ==
    LET r1 == DropLeading(r, {"\n"})
    IN  IF r1 = <<>> THEN <<>>
        ELSE LET k == CHOOSE k \in 1..Len(r1) :
                         /\ Lookahead(r1, k)
                         /\ \A j \in 1..(k - 1) : ~Lookahead(r1, j)
             IN  DropTrailing(DropLeading(SubSeq(r1, 1, k), {"\n"}), {"\n"})

\* The labels of prompt_patterns, in the order they are tried; the fourth
\* pattern needs white space and one more character behind its word
prompt_patterns ==
    <<[label |-> <<"DNDSTYLE", "IMAGE", "PROMPT:">>, least |-> 1],
      [label |-> <<"IMAGE", "PROMPT:">>, least |-> 1],
      [label |-> <<"PROMPT:">>, least |-> 1],
      [label |-> <<"dndstyle">>, least |-> 1]>>

\* The fourth pattern does not match a word followed by one line break only
PatternMatches(t, n) ==
    LET r == Behind(t, prompt_patterns[n].label, prompt_patterns[n].least)
    IN  /\ r # <<>>
        /\ n = 4 => r # <<"\n">>

\* "for pattern in prompt_patterns": the prompt of the first pattern that
\* matches, <<>> when none does
RECURSIVE SearchPrompt(_, _)
SearchPrompt(t, n) ==
    IF n > Len(prompt_patterns) THEN <<>>
    ELSE IF PatternMatches(t, n)
    THEN PromptGroup(Behind(t, prompt_patterns[n].label,
                            prompt_patterns[n].least))
    ELSE SearchPrompt(t, n + 1)

\* The words of r up to the first line break
RECURSIVE FirstLine(_)
FirstLine(r) ==
    IF r = <<>> \/ Head(r) = "\n" THEN <<>>
    ELSE <<Head(r)>> \o FirstLine(Tail(r))

\* The labels of name_patterns a text can hold
name_patterns == <<<<"IMAGE", "NAME:">>, <<"NAME:">>>>

\* "for pattern in name_patterns": group(1).strip() of the first pattern that
\* matches, <<>> when none does
RECURSIVE SearchName(_, _)
SearchName(t, n) ==
    IF n > Len(name_patterns) THEN <<>>
    ELSE LET r == DropLeading(Behind(t, name_patterns[n], 1), {"\n"})
         IN  IF r # <<>> THEN FirstLine(r) ELSE SearchName(t, n + 1)

\* re.search(r'(dndstyle[^.!?\n]+)', ...): the word and the rest of its line
DndstyleMatch(t) ==
    LET places == {i \in 1..(Len(t) - 1) :
                      Fold(t[i]) = "dndstyle" /\ t[i + 1] # "\n"}
    IN  IF places = {} THEN <<>>
        ELSE LET i == CHOOSE i \in places : \A j \in places : i <= j
             IN  FirstLine(From(t, i))

\* "dndstyle fantasy adventure scene, dungeons and dragons style illustration"
BasisPrompt ==
    <<"dndstyle", "fantasy", "adventure", "scene,", "dungeons", "and",
      "dragons", "style", "illustration">>

fallback_scene ==
    <<"f", "a", "l", "l", "b", "a", "c", "k", "_", "s", "c", "e", "n", "e">>

\* The index of the first word w of t, 0 when t does not hold it
IndexOf(t, w) ==
    IF \E i \in 1..Len(t) : t[i] = w
    THEN CHOOSE i \in 1..Len(t) : t[i] = w /\ \A j \in 1..(i - 1) : t[j] # w
    ELSE 0

\* response_text.split('</think>')[1]
AfterThink(t) ==
    LET rest == From(t, IndexOf(t, "</think>") + 1)
    IN  IF IndexOf(rest, "</think>") = 0 THEN rest
        ELSE SubSeq(rest, 1, IndexOf(rest, "</think>") - 1)

\* clean_response: with both tags in the text, what stands behind the
\* first closing tag, stripped
clean_response(t) ==
    IF IndexOf(t, "<think>") # 0 /\ IndexOf(t, "</think>") # 0
    THEN DropTrailing(DropLeading(AfterThink(t), {"\n"}), {"\n"})
    ELSE t

\* parse_llm_response: the prompt, the name, and where the prompt is from
parse_llm_response(response_text, clock) ==
    LET t == clean_response(response_text)
        image_prompt == SearchPrompt(t, 1)
        image_name == SearchName(t, 1)
    IN  IF image_prompt # <<>> /\ image_name # <<>>
        THEN [prompt |-> image_prompt,
              name |-> timestamped_name(SpellAll(image_name), clock),
              from |-> "pattern"]
        ELSE IF DndstyleMatch(t) # <<>>
        THEN [prompt |-> DndstyleMatch(t),
              name |-> timestamped_name(generated_scene, clock),
              from |-> "dndstyle_match"]
        ELSE [prompt |-> BasisPrompt,
              name |-> timestamped_name(fallback_scene, clock),
              from |-> "basis"]

----------------------------------------------------------------------------
(***************************************************************************)
(* The response of the scene pipeline's LLM call (_generate_scene_prompt   *)
(* and the head of process_new_transcript in scene_visualizer_runner.py).  *)
(***************************************************************************)

\* The default of llm_result.get('dndstyle_prompt', ...)
FantasyScene == <<"dndstyle", "illustration", "of", "a", "fantasy", "scene">>

\* The prompt returned after a JSONDecodeError
MysteriousDungeon ==
    <<"dndstyle", "illustration", "of", "a", "mysterious", "dungeon", "scene">>

\* The prompt returned after an exception of the request
EpicAdventure ==
    <<"dndstyle", "illustration", "of", "an", "epic", "fantasy", "adventure",
      "scene">>

\* Values the model may put under "dndstyle_prompt" and "szenenbeschreibung"
PromptValues ==
    {MysteriousDungeon, <<"dndstyle", "illustration", "of", "a", "dragon">>,
     <<"a", "dragon">>}

Beschreibungen == {"Eine mysteriöse D&D Szene", "Ein Drache in seiner Höhle"}

\* What json.loads makes of a response that is a JSON object; has_prompt
\* tells whether the key "dndstyle_prompt" is there
JsonObjects ==
    [has_prompt : BOOLEAN, dndstyle_prompt : PromptValues,
     szenenbeschreibung : Beschreibungen]

\* The responses of ollama.generate: a JSON object, a <think> block followed
\* by a JSON object, other JSON (an array), text that is not JSON, and a
\* request that raised
SceneResponses ==
    [kind : {"object", "think_object"}, result : JsonObjects]
        \cup [kind : {"array", "not_json", "raised"},
              result : {[has_prompt |-> FALSE, dndstyle_prompt |-> <<>>,
                         szenenbeschreibung |-> ""]}]

\* _generate_scene_prompt: the first element of the pair it returns
llm_result(r) ==
    CASE r.kind \in {"not_json", "think_object"} ->
             [has_prompt |-> TRUE, dndstyle_prompt |-> MysteriousDungeon,
              szenenbeschreibung |-> "Eine mysteriöse D&D Szene"]
      [] r.kind = "raised" ->
             [has_prompt |-> TRUE, dndstyle_prompt |-> EpicAdventure,
              szenenbeschreibung |-> "Eine epische D&D Szene"]
      [] OTHER -> r.result

\* llm_result.get('dndstyle_prompt', 'dndstyle illustration of a fantasy scene')
dndstyle_prompt(r) ==
    IF llm_result(r).has_prompt THEN llm_result(r).dndstyle_prompt
    ELSE FantasyScene

\* The keys of <scene>_metadata.json that come from the response
metadata(r) ==
    [llm_result |-> llm_result(r),
     llm_full_response |-> r,
     dndstyle_prompt |-> dndstyle_prompt(r),
     szenenbeschreibung |-> llm_result(r).szenenbeschreibung]

\* The clean-up of parse_llm_response is applied to a name candidate
name_cleaned ==
    /\ resp.pc = "idle"
    /\ \E c \in Candidates, clock \in Clocks :
          resp' = [resp EXCEPT !.pc = "named", !.candidate = c,
                               !.name = timestamped_name(c, clock)]
    /\ UNCHANGED <<sceneVars, dndVars, hc, rt, health, moreVars>>

\* parse_llm_response is called on a response text; its prompt goes to
\* img_gen.generate_img
response_parsed ==
    /\ resp.pc = "idle"
    /\ \E t \in Texts, clock \in Clocks :
          LET out == parse_llm_response(t, clock)
          IN  resp' = [resp EXCEPT !.pc = "parsed", !.text = t,
                                   !.prompt = out.prompt, !.name = out.name,
                                   !.from = out.from, !.clock = clock]
    /\ UNCHANGED <<sceneVars, dndVars, hc, rt, health, moreVars>>

\* process_new_transcript from the LLM call to the written metadata; a
\* result that is no dict ends the run in llm_result.get
scene_described ==
    /\ resp.pc = "idle"
    /\ \E r \in SceneResponses :
          resp' = IF r.kind = "array"
                  THEN [resp EXCEPT !.pc = "failed", !.json = r]
                  ELSE [resp EXCEPT !.pc = "described", !.json = r,
                                    !.prompt = dndstyle_prompt(r),
                                    !.record = metadata(r)]
    /\ UNCHANGED <<sceneVars, dndVars, hc, rt, health, moreVars>>

LlmNext == name_cleaned \/ response_parsed \/ scene_described

LlmSpec == IdleInit /\ [][LlmNext]_vars

\* C25: every prompt that goes to the image client begins with dndstyle
\* (in either case of the letters), whatever the LLM answered.
C25_PromptBeginsWithTrigger ==
    resp.pc \in {"parsed", "described"} =>
        (resp.prompt # <<>> /\ Fold(Head(resp.prompt)) = "dndstyle")

\* The brackets of s match one another
RECURSIVE Depth(_, _)
Depth(s, d) ==
    IF d < 0 THEN -1
    ELSE IF s = <<>> THEN d
    ELSE Depth(Tail(s),
               IF Head(s) = "(" THEN d + 1
               ELSE IF Head(s) = ")" THEN d - 1 ELSE d)

Balanced(s) == Depth(s, 0) = 0

\* The character at index p of c stands inside a bracketed annotation
InAnnotation(c, p) ==
    \E i \in 1..(p - 1), j \in (p + 1)..Len(c) :
        c[i] = "(" /\ c[j] = ")" /\ Balanced(SubSeq(c, i + 1, j - 1))

\* C26: the returned name is HHMM_<name>, <name> made of ASCII letters,
\* digits and underscores, without two underscores in a row or one at either
\* end, 3 to 35 characters long, and with nothing of a bracketed annotation
\* of the candidate: a letter that the candidate has inside brackets only
\* is not in <name>.
C26_NameWellFormed ==
    resp.pc \in {"named", "parsed"} =>
        LET n == SubSeq(resp.name, 6, Len(resp.name)) IN
        /\ Len(resp.name) >= 5
        /\ \A k \in 1..4 : \E d \in 1..10 : resp.name[k] = Digits[d]
        /\ resp.name[5] = "_"
        /\ \A k \in 1..Len(n) : n[k] \in AsciiWord
        /\ \A k \in 1..(Len(n) - 1) : ~(n[k] = "_" /\ n[k + 1] = "_")
        /\ Len(n) >= NameMin /\ Len(n) <= NameLimit
        /\ n[1] # "_" /\ n[Len(n)] # "_"
        /\ (resp.pc = "named"
              /\ \A p \in 1..Len(resp.candidate) :
                    resp.candidate[p] = "b" => InAnnotation(resp.candidate, p))
              => \A k \in 1..Len(n) : n[k] # "b"

\* The keys of the record other than the raw response text
Described(record) ==
    [llm_result |-> record.llm_result,
     dndstyle_prompt |-> record.dndstyle_prompt,
     szenenbeschreibung |-> record.szenenbeschreibung]

\* C28: after a response that is not JSON the run goes on with the literal
\* fallback prompt, and what it writes tells the fallback from a prompt the
\* LLM produced: no answer of the LLM gives the same record.
C28_FallbackFlagged ==
    (resp.pc = "described" /\ resp.json.kind = "not_json") =>
        /\ resp.prompt = MysteriousDungeon
        /\ \A g \in SceneResponses :
              g.kind = "object" =>
                  Described(metadata(g)) # Described(resp.record)

----------------------------------------------------------------------------
(***************************************************************************)
(* TranscriptEventHandler.on_created on the observer's thread: the events  *)
(* of the watched directory are handled one after the other.               *)
(***************************************************************************)

\* Events delivered in one behaviour, and the seconds the clock counts
MaxCreated == 2
MaxClock == 4

\* time.sleep(2)
SettleDelay == 2

\* Paths of created entries, in pieces: a transcript, a file that only
\* contains the suffix, another file, the suffix in capital letters
WatchPaths ==
    {<<"sz001", "_transkript.txt">>, <<"sz001", "_transkript.txt", ".bak">>,
     <<"notes.txt">>, <<"sz001", "_TRANSKRIPT.TXT">>}

WatchEvents == [src_path : WatchPaths, is_directory : BOOLEAN]

\* str.endswith on a path in pieces
endswith(path, suffix) == path # <<>> /\ path[Len(path)] = suffix

\* The frame of the steps of the components modelled on their own
quietVars == <<sceneVars, dndVars, hc, resp, rt, health>>

\* An entry is created in the watched directory: watchdog queues the event
file_created(e) ==
    /\ Len(watch.log) < MaxCreated
    /\ watch' = [watch EXCEPT !.queue = Append(@, e), !.log = Append(@, e)]
    /\ UNCHANGED <<quietVars, loop, cycle, ids>>

\* A second passes
second_passes ==
    /\ watch.now < MaxClock
    /\ watch' = [watch EXCEPT !.now = @ + 1]
    /\ UNCHANGED <<quietVars, loop, cycle, ids>>

\* on_created is called with the next event and runs up to time.sleep(2),
\* or returns at once
event_dispatched ==
    /\ watch.pc = "idle"
    /\ watch.queue # <<>>
    /\ LET event == Head(watch.queue)
       IN  watch' = [watch EXCEPT
                       !.queue = Tail(@),
                       !.taken = @ + 1,
                       !.seen = watch.now,
                       !.pc = IF event.is_directory THEN "idle"
                              ELSE IF endswith(event.src_path, "_transkript.txt")
                                   THEN "settling"
                                   ELSE "idle"]
    /\ UNCHANGED <<quietVars, loop, cycle, ids>>

\* An on_created that does not wait
settle_elapsed_NoDelay ==
    /\ watch.pc = "settling"
    /\ watch' = [watch EXCEPT
                   !.pc = "idle",
                   !.triggers = Append(@, [path |-> watch.log[watch.taken].src_path,
                                           seen |-> watch.seen,
                                           at |-> watch.now])]
    /\ UNCHANGED <<quietVars, loop, cycle, ids>>

\* time.sleep(2) is over: runner.process_new_transcript(event.src_path) is
\* called, and on_created returns when it has returned
settle_elapsed ==
    /\ watch.pc = "settling"
    /\ watch.now >= watch.seen + SettleDelay
    /\ watch' = [watch EXCEPT
                   !.pc = "idle",
                   !.triggers = Append(@, [path |-> watch.log[watch.taken].src_path,
                                           seen |-> watch.seen,
                                           at |-> watch.now])]
    /\ UNCHANGED <<quietVars, loop, cycle, ids>>

WatchNext ==
    \/ \E e \in WatchEvents : file_created(e)
    \/ second_passes
    \/ event_dispatched
    \/ settle_elapsed

WatchSpec == IdleInit /\ [][WatchNext]_vars

\* The events on_created has returned from
Handled ==
    SubSeq(watch.log, 1,
           IF watch.pc = "settling" THEN watch.taken - 1 ELSE watch.taken)

\* The event is for a file whose name ends in _transkript.txt
IsTranscriptEvent(e) ==
    ~e.is_directory /\ endswith(e.src_path, "_transkript.txt")

\* C31: the calls of process_new_transcript made by the handler are, in
\* order, one for each handled created-event of a non-directory path ending
\* in _transkript.txt and none for any other event, each made at least the
\* settle delay after the handler took the event.
C31_OneTriggerPerTranscript ==
    LET expected == SelectSeq(Handled, IsTranscriptEvent)
    IN  /\ Len(watch.triggers) = Len(expected)
        /\ \A k \in 1..Len(watch.triggers) :
              /\ k <= Len(expected)
              /\ watch.triggers[k].path = expected[k].src_path
              /\ watch.triggers[k].at >= watch.triggers[k].seen + SettleDelay

\* A directory named like a transcript and a transcript file were handled:
\* one trigger, for the file
C31_Witness ==
    /\ watch.pc = "idle" /\ watch.taken = 2
    /\ \E k \in 1..2 : /\ watch.log[k].is_directory
                       /\ endswith(watch.log[k].src_path, "_transkript.txt")
    /\ \E k \in 1..2 : IsTranscriptEvent(watch.log[k])
    /\ Len(watch.triggers) = 1

----------------------------------------------------------------------------
\* C33: when a run of process_new_transcript ends by writing the error
\* file, failed_attempts in that file is the number of calls of
\* img_gen.generate_img the run has made, the last one included.
C33_AttemptsCounted ==
    [][\A r \in BagToSet(runs) :
          (RunEnds(r) /\ r.c # 0 /\ lastRun'[r.f] = "failed")
              => scene'[r.f].failed_attempts = r.n + 1]_vars

----------------------------------------------------------------------------
\* The text holds one <think> ... </think> block
OneThinkBlock(t) ==
    /\ Cardinality({i \in 1..Len(t) : t[i] = "<think>"}) = 1
    /\ Cardinality({i \in 1..Len(t) : t[i] = "</think>"}) = 1
    /\ IndexOf(t, "<think>") < IndexOf(t, "</think>")

\* C34: a response with one <think> block is handled as the text behind the
\* closing tag is: parse_llm_response returns for it what it returns for
\* that text, and the scene pipeline, given a think block followed by a JSON
\* object, goes on with the fields of that object.
C34_ThinkBlockRemoved ==
    /\ (resp.pc = "parsed" /\ OneThinkBlock(resp.text)) =>
           LET out == parse_llm_response(AfterThink(resp.text), resp.clock)
           IN  resp.prompt = out.prompt /\ resp.name = out.name
    /\ (resp.pc = "described" /\ resp.json.kind = "think_object") =>
           resp.record.llm_result = resp.json.result

----------------------------------------------------------------------------
(***************************************************************************)
(* _tracking_loop and _healthcheck_loop of SceneVisualizerRunner, each on  *)
(* its own thread, and the flag self.running they read.                    *)
(***************************************************************************)

\* Passes of the tracking loop in one behaviour, and files one pass finds
\* new or changed
MaxPasses == 6
MaxNew == 2

\* How _sync_tracking_with_filesystem can go: no exception; an exception
\* and a repair that works; an exception and a repair that raises as well
SyncOutcomes == {"ok", "repaired", "repair_failed"}

\* Whether the call raises into _tracking_loop: the body is inside
\* "try ... except Exception", and so is the call of _repair_tracking in
\* that except clause
sync_raises(outcome) ==
    CASE outcome = "ok" -> FALSE
      [] outcome = "repaired" -> FALSE
      [] outcome = "repair_failed" -> FALSE

\* run(): self.running = True, the tracking thread and the healthcheck
\* thread are started
threads_started ==
    /\ loop.t_pc = "off"
    /\ loop' = [loop EXCEPT !.running = TRUE, !.t_pc = "while",
                            !.h_pc = "while"]
    /\ UNCHANGED <<quietVars, watch, cycle, ids>>

\* _signal_handler or _shutdown_gracefully: self.running = False
shutdown_requested ==
    /\ loop.running
    /\ loop' = [loop EXCEPT !.running = FALSE]
    /\ UNCHANGED <<quietVars, watch, cycle, ids>>

\* A tracking loop that does not look at self.running
tracking_while_Forever ==
    /\ loop.t_pc = "while"
    /\ loop.passes < MaxPasses
    /\ \E n \in 0..MaxNew :
          loop' = [loop EXCEPT !.t_pc = "sync", !.todo = n,
                               !.passes = @ + 1]
    /\ UNCHANGED <<quietVars, watch, cycle, ids>>

\* "while self.running" of _tracking_loop: the next pass begins, with n
\* files to dispatch, or the loop is left
tracking_while ==
    /\ loop.t_pc = "while"
    /\ \/ /\ loop.running
          /\ loop.passes < MaxPasses
          /\ \E n \in 0..MaxNew :
                loop' = [loop EXCEPT
                           !.t_pc = "sync", !.todo = n, !.passes = @ + 1,
                           !.late = IF "tracking" \in loop.seen_stop
                                    THEN @ \cup {"pass"} ELSE @]
       \/ /\ ~loop.running
          /\ loop' = [loop EXCEPT !.t_pc = "done",
                                  !.seen_stop = @ \cup {"tracking"}]
    /\ UNCHANGED <<quietVars, watch, cycle, ids>>

\* "if self.running" for a file of the pass that is to be processed: the
\* thread of _process_file_safely is started, or not
sync_dispatch ==
    /\ loop.t_pc = "sync"
    /\ loop.todo > 0
    /\ loop' = IF loop.running
               THEN [loop EXCEPT
                       !.todo = @ - 1,
                       !.late = IF "tracking" \in loop.seen_stop
                                THEN @ \cup {"dispatch"} ELSE @]
               ELSE [loop EXCEPT !.todo = @ - 1,
                                 !.seen_stop = @ \cup {"tracking"}]
    /\ UNCHANGED <<quietVars, watch, cycle, ids>>

\* The rest of the iteration of _tracking_loop: the pass ends, the counter
\* and the pause are set; slow tells whether the pass took more than 1 s
sync_returns(outcome, slow) ==
    /\ loop.t_pc = "sync"
    /\ loop.todo = 0
    /\ loop' =
         IF sync_raises(outcome)
         THEN LET n == loop.consecutive_errors + 1
                  error_pause == IF 5 + n * 2 < 30 THEN 5 + n * 2 ELSE 30
              IN  [loop EXCEPT
                     !.t_pc = "sleep",
                     !.consecutive_errors = n,
                     !.pause = error_pause,
                     !.dumps = IF n >= 5 THEN @ + 1 ELSE @,
                     !.failed = @ + 1]
         ELSE [loop EXCEPT
                 !.t_pc = "sleep",
                 !.consecutive_errors = 0,
                 !.pause = IF slow THEN 5 ELSE 3,
                 !.failed = IF outcome = "ok" THEN 0 ELSE @ + 1]
    /\ UNCHANGED <<quietVars, watch, cycle, ids>>

\* time.sleep(pause_time) of _tracking_loop is over
tracking_wakes ==
    /\ loop.t_pc = "sleep"
    /\ loop' = [loop EXCEPT !.t_pc = "while"]
    /\ UNCHANGED <<quietVars, watch, cycle, ids>>

\* "while self.running" of _healthcheck_loop
healthcheck_while ==
    /\ loop.h_pc = "while"
    /\ loop' = IF loop.running
               THEN [loop EXCEPT
                       !.h_pc = "check",
                       !.late = IF "healthcheck" \in loop.seen_stop
                                THEN @ \cup {"check"} ELSE @]
               ELSE [loop EXCEPT !.h_pc = "done",
                                 !.seen_stop = @ \cup {"healthcheck"}]
    /\ UNCHANGED <<quietVars, watch, cycle, ids>>

\* The body of _healthcheck_loop up to time.sleep(30), or time.sleep(60)
\* after an exception
healthcheck_iteration ==
    /\ loop.h_pc = "check"
    /\ loop' = [loop EXCEPT !.h_pc = "sleep"]
    /\ UNCHANGED <<quietVars, watch, cycle, ids>>

\* time.sleep of _healthcheck_loop is over
healthcheck_wakes ==
    /\ loop.h_pc = "sleep"
    /\ loop' = [loop EXCEPT !.h_pc = "while"]
    /\ UNCHANGED <<quietVars, watch, cycle, ids>>

\* The steps of the tracking thread and of the healthcheck thread
TrackingStep ==
    \/ tracking_while
    \/ sync_dispatch
    \/ \E outcome \in SyncOutcomes, slow \in BOOLEAN : sync_returns(outcome, slow)
    \/ tracking_wakes

HealthcheckStep ==
    healthcheck_while \/ healthcheck_iteration \/ healthcheck_wakes

LoopNext ==
    \/ threads_started
    \/ shutdown_requested
    \/ tracking_while
    \/ sync_dispatch
    \/ \E outcome \in SyncOutcomes, slow \in BOOLEAN : sync_returns(outcome, slow)
    \/ tracking_wakes
    \/ healthcheck_while
    \/ healthcheck_iteration
    \/ healthcheck_wakes

LoopSpec == IdleInit /\ [][LoopNext]_vars

\* Both threads keep being scheduled
LoopFairSpec == LoopSpec /\ WF_vars(TrackingStep) /\ WF_vars(HealthcheckStep)

\* C35: after five or more failed passes in a row the tracking loop has run
\* its diagnostic dump and pauses for min(30, 5 + 2n) seconds, n being the
\* number of failures in a row; no pause is longer than 30 seconds; after a
\* pass that worked the count is 0.
C35_BackoffAfterFailures ==
    /\ loop.pause <= 30
    /\ loop.failed = 0 => loop.consecutive_errors = 0
    /\ (loop.t_pc = "sleep" /\ loop.failed >= 5) =>
           /\ loop.dumps >= 1
           /\ loop.pause = IF 5 + loop.failed * 2 < 30
                           THEN 5 + loop.failed * 2 ELSE 30

----------------------------------------------------------------------------
(***************************************************************************)
(* The generation cycle of the interval runner (_run_generation_cycle of   *)
(* dnd_visualizer_runner.py) with the services healthy: the transcript     *)
(* file, its modification time, and last_generation_time.                  *)
(***************************************************************************)

\* Versions of the transcript written in one behaviour, the first included
MaxVersions == 3

\* Words of a text returned by the LLM, and their letters
MaxReply == 2

ReplyWords == {"Kein", "Fehler", "Fehlerlos", "dragon"}

Letters(w) ==
    CASE w = "Kein"      -> <<"K", "e", "i", "n">>
      [] w = "Fehler"    -> <<"F", "e", "h", "l", "e", "r">>
      [] w = "Fehlerlos" -> <<"F", "e", "h", "l", "e", "r", "l", "o", "s">>
      [] w = "dragon"    -> <<"d", "r", "a", "g", "o", "n">>
      [] w = "Fehler:"   -> <<"F", "e", "h", "l", "e", "r", ":">>
      [] OTHER           -> <<w>>

\* The characters of a text: its words, one space apart
RECURSIVE Characters(_)
Characters(t) ==
    IF t = <<>> THEN <<>>
    ELSE IF Len(t) = 1 THEN Letters(t[1])
    ELSE Letters(t[1]) \o <<" ">> \o Characters(Tail(t))

\* needle in hay, for two strings
Contains(hay, needle) ==
    \E i \in 1..(Len(hay) - Len(needle) + 1) :
        SubSeq(hay, i, i + Len(needle) - 1) = needle

\* What the calls of ollama.chat inside analyze_transcript_and_generate_prompt
\* end in: a text that is not empty, or no usable response in any attempt
LlmReplies ==
    [succeeded : {TRUE},
     text : UNION {[1..n -> ReplyWords] : n \in 1..MaxReply}]
        \cup {[succeeded |-> FALSE, text |-> <<>>]}

\* analyze_transcript_and_generate_prompt: the text of the response, or
\* "Fehler: Alle Ollama-Abfrage-Versuche fehlgeschlagen"
analyze_transcript_and_generate_prompt(reply) ==
    IF reply.succeeded THEN reply.text
    ELSE <<"Fehler:", "Alle", "Ollama-Abfrage-Versuche", "fehlgeschlagen">>

\* if "Fehler" in llm_response
classified_as_error(llm_response) ==
    Contains(Characters(llm_response), Letters("Fehler"))

\* _check_transcript_changes
check_transcript_changes ==
    \/ cycle.last_generation_time = -1
    \/ cycle.mtime > cycle.last_generation_time

\* run() has reached its main loop; the transcript file is there
runner_started ==
    /\ cycle.pc = "off"
    /\ cycle' = [cycle EXCEPT !.pc = "wait", !.version = 1]
    /\ UNCHANGED <<quietVars, watch, loop, ids>>

\* The transcript is written by the transcription: new content, new mtime
transcript_modified ==
    /\ cycle.pc # "off"
    /\ cycle.version < MaxVersions
    /\ cycle' = [cycle EXCEPT !.now = @ + 1, !.mtime = cycle.now + 1,
                              !.version = @ + 1]
    /\ UNCHANGED <<quietVars, watch, loop, ids>>

\* _run_generation_cycle up to parser.get_transkript: without a change the
\* cycle ends, with one the transcript is read
cycle_begins ==
    /\ cycle.pc = "wait"
    /\ cycle' = IF check_transcript_changes
                THEN [cycle EXCEPT !.pc = "generating", !.read = cycle.version]
                ELSE cycle
    /\ UNCHANGED <<quietVars, watch, loop, ids>>

\* The rest of the cycle: the LLM call, the test for "Fehler", the image;
\* after a success last_generation_time = datetime.now()
cycle_ends(reply) ==
    /\ cycle.pc = "generating"
    /\ cycle' =
         IF classified_as_error(analyze_transcript_and_generate_prompt(reply))
         THEN [cycle EXCEPT !.pc = "wait", !.llm = reply,
                            !.result = "llm_error"]
         ELSE [cycle EXCEPT
                 !.pc = "wait", !.llm = reply, !.result = "success",
                 !.last_generation_time = cycle.now,
                 !.processed = IF cycle.read > @ THEN cycle.read ELSE @]
    /\ UNCHANGED <<quietVars, watch, loop, ids>>

\* A cycle whose LLM call brings a text without "Fehler"
cycle_succeeds ==
    \E reply \in LlmReplies :
        /\ reply.succeeded
        /\ ~classified_as_error(reply.text)
        /\ cycle_ends(reply)

CycleNext ==
    \/ runner_started
    \/ transcript_modified
    \/ cycle_begins
    \/ \E reply \in LlmReplies : cycle_ends(reply)

CycleSpec == IdleInit /\ [][CycleNext]_vars

\* The runner keeps running its cycles, and time and again the LLM brings a
\* text that the cycle takes
CycleFairSpec ==
    CycleSpec /\ WF_vars(runner_started) /\ WF_vars(cycle_begins)
              /\ SF_vars(cycle_succeeds)

\* C37: every version of the transcript is followed by a cycle that has
\* processed that version or a newer one.
C37_ModificationProcessed ==
    \A v \in 1..MaxVersions :
        (cycle.version = v) ~> (cycle.processed >= v)

\* C38: a cycle ends with an LLM error only when
\* analyze_transcript_and_generate_prompt got no usable response.
C38_OnlyFailuresAreErrors ==
    cycle.result = "llm_error" => ~cycle.llm.succeeded

----------------------------------------------------------------------------
(***************************************************************************)
(* The scene id of a transcript file, as the parser, the reconciliation    *)
(* pass and the startup bootstrap derive it.  A file name is a sequence of *)
(* pieces; "_transkript" and ".txt" are pieces of their own.               *)
(***************************************************************************)

\* Pieces of a file name in front of its ending _transkript.txt
MaxPrefix == 4

NamePieces == {"sz", "v2", "_transkript", ".txt"}

\* The file names that glob("*_transkript.txt") returns
TranscriptNames ==
    {prefix \o <<"_transkript", ".txt">> :
        prefix \in UNION {[1..n -> NamePieces] : n \in 0..MaxPrefix}}

\* pathlib's stem of a name that ends in .txt
stem(name) == SubSeq(name, 1, Len(name) - 1)

\* str.replace(old, "") for an old of one piece or of two
RECURSIVE replace(_, _)
replace(s, old) ==
    IF Len(s) < Len(old) THEN s
    ELSE IF SubSeq(s, 1, Len(old)) = old
         THEN replace(SubSeq(s, Len(old) + 1, Len(s)), old)
         ELSE <<Head(s)>> \o replace(Tail(s), old)

\* SceneTranskriptParser.get_scene_name: names the files that
\* process_new_transcript writes
get_scene_name(name) ==
    IF endswith(stem(name), "_transkript")
    THEN SubSeq(stem(name), 1, Len(stem(name)) - 1)
    ELSE stem(name)

\* _check_for_existing_output: base_name
base_name(name) == replace(name, <<"_transkript", ".txt">>)

\* _check_initial_transcripts: scene_name
initial_scene_name(name) == replace(stem(name), <<"_transkript">>)

\* The three derivations are made for a file of the transcript directory
scene_ids_derived ==
    /\ ids.pc = "idle"
    /\ \E name \in TranscriptNames :
          ids' = [pc |-> "derived", name |-> name,
                  parser |-> get_scene_name(name),
                  reconciler |-> base_name(name),
                  bootstrap |-> initial_scene_name(name)]
    /\ UNCHANGED <<quietVars, watch, loop, cycle>>

IdNext == scene_ids_derived

IdSpec == IdleInit /\ [][IdNext]_vars

\* C39: for every file name ending in _transkript.txt the scene id of the
\* parser, the base name of the existing-output check and the scene name of
\* the startup bootstrap are the same.
C39_SceneIdsAgree ==
    ids.pc = "derived" =>
        /\ ids.reconciler = ids.parser
        /\ ids.bootstrap = ids.parser

----------------------------------------------------------------------------
\* C40: run() of the interval runner removes the lock file on return exactly
\* when this process created it: a return because another live process holds
\* the lock leaves the lock file of that process as it was, and a return
\* after _create_lock_file is made by a process that created the file and
\* leaves no lock file.
C40_LockRemovedByCreator ==
    [][\A i \in Instances :
          /\ (dnd_pc[i] # "refused" /\ dnd_pc'[i] = "refused") =>
                /\ lock_file \in Instances \ {i}
                /\ Alive(lock_file)
                /\ lock_file' = lock_file
          /\ (dnd_pc[i] # "exited" /\ dnd_pc'[i] = "exited") =>
                /\ PastLock(i)
                /\ lock_file' = "absent"
          /\ (PastLock(i) /\ ~PastLock(i)') => dnd_pc'[i] = "exited"]_vars

\* One process was refused by the lock of the other, which later ran its
\* loop and returned True, and no lock file is left
C40_Witness ==
    \E i, j \in Instances :
        /\ dnd_pc[i] = "refused" /\ returned[i] = "False"
        /\ dnd_pc[j] = "exited" /\ returned[j] = "True"
        /\ lock_file = "absent"
====
